---- MODULE Spec2Model ----
(***************************************************************************)
(* A model of the rusty-gigabyte Game Boy emulator: the MMU                *)
(* (src/src/gameboy/mmu.rs), the joypad register (src/src/gameboy/keys.rs),*)
(* the CPU interpreter (src/src/gameboy/cpu.rs), the GPU                   *)
(* (src/src/gameboy/gpu.rs) and the loop of the emulation thread           *)
(* (src/src/gameboy.rs).                                                   *)
(*                                                                         *)
(* Memory arrays are kept sparse: an array is a function from the indices  *)
(* that hold a non-zero byte to that byte; every other index reads 0, as   *)
(* in the zero-initialised arrays of new_mmu.  A Rust panic (an index out  *)
(* of range, an arithmetic overflow in a build with overflow checks, an    *)
(* unwrap of an error) ends the thread: the model sets `panicked` and the  *)
(* thread takes no further step.                                           *)
(***************************************************************************)
EXTENDS Integers, Sequences, FiniteSets, TLC

VARIABLES
    cpu,              \* CPU: registers, latches and clocks
    mmu,              \* MMU: in_bios, the RAM arrays, the cartridge
    key_reg,          \* KeyReg: column and the two rows
    panicked,         \* the emulation thread has panicked
    overflow_checks,  \* the build panics on integer overflow (debug profile)
    debug_gb_doctor,  \* the value of the constant mmu::DEBUG_GB_DOCTOR in the build
    last_op,          \* history: the most recent call and what it returned; for exec also
                      \* int: IME and IE & IF as the instruction left them, its own
                      \* m-cycles, and whether interrupt handling left PC, SP, IME, IF
    written,          \* history: address -> byte last stored there by a completed wb or ww
    dispatched,       \* history: the interrupt vectors exec has dispatched to
    nops,             \* history: number of calls made so far
    gpu,              \* GPU: mode, mode_clock, line
    engine,           \* start_game_boy: position in the loop body, delta_t, fclk; frames sent;
                      \* history: the lines rendered since the frame began
    held,             \* history: the keys whose most recent event is key_down
    threads,          \* the threads calling the KeyReg: operation in progress and locals
    locks,            \* KeyReg: holders of the RwLock of column and of the RwLock of rows
    lin,              \* history: the KeyReg of the sequential order of the calls
    screen            \* GPU::renderscan on its own: what it reads, the frame buffer row it leaves

vars == <<cpu, mmu, key_reg, panicked, overflow_checks, debug_gb_doctor, last_op, written,
          dispatched, nops, gpu, engine, held, threads, locks, lin, screen>>

gpuVars == <<gpu, engine, screen>>
threadVars == <<threads, locks, lin>>

(***************************************************************************)
(* Bounds of the model.                                                    *)
(***************************************************************************)
MaxOps == 3        \* calls made on the MMU / KeyReg interface in one behaviour
MaxSteps == 12     \* CPU.exec calls in one behaviour

(***************************************************************************)
(* Fixed-width integer helpers.                                            *)
(***************************************************************************)
Pow2(n) == 2 ^ n

Bit(x, i) == (x \div Pow2(i)) % 2

RECURSIVE BitAndN(_, _, _)
BitAndN(x, y, n) ==
    IF n = 0 \/ x = 0 \/ y = 0 THEN 0
    ELSE (x % 2) * (y % 2) + 2 * BitAndN(x \div 2, y \div 2, n - 1)

\* x & y on 16-bit operands
BitAnd(x, y) == BitAndN(x, y, 16)

RECURSIVE BitOrN(_, _, _)
BitOrN(x, y, n) ==
    IF n = 0 \/ (x = 0 /\ y = 0) THEN 0
    ELSE (IF (x % 2) + (y % 2) > 0 THEN 1 ELSE 0) + 2 * BitOrN(x \div 2, y \div 2, n - 1)

BitOr(x, y) == BitOrN(x, y, 16)

RECURSIVE BitXorN(_, _, _)
BitXorN(x, y, n) ==
    IF n = 0 \/ (x = 0 /\ y = 0) THEN 0
    ELSE (((x % 2) + (y % 2)) % 2) + 2 * BitXorN(x \div 2, y \div 2, n - 1)

BitXor(x, y) == BitXorN(x, y, 16)

\* !x on a u8
Not8(x) == 255 - x

U8(x) == x % 256
U16(x) == x % 65536

(***************************************************************************)
(* Sparse byte arrays.                                                     *)
(***************************************************************************)
EmptyArr == [i \in {} |-> 0]

ArrGet(arr, i) == IF i \in DOMAIN arr THEN arr[i] ELSE 0

ArrSet(arr, i, v) ==
    IF v = 0
    THEN [j \in (DOMAIN arr) \ {i} |-> arr[j]]
    ELSE [j \in (DOMAIN arr) \cup {i} |-> IF j = i THEN v ELSE arr[j]]

\* arr[idx] of a Rust array of length len: a negative idx is a usize
\* subtraction that overflowed (a panic with overflow checks, an index far
\* beyond len without them), so both builds panic exactly when this is FALSE
InRange(idx, len) == idx >= 0 /\ idx < len

(***************************************************************************)
(* Cartridge images (the input of the emulator).  An image is 32 KiB; a    *)
(* cartridge is named by a record and CartFile gives the bytes that are    *)
(* not zero.  Every image carries the same data bytes outside the program  *)
(* area; the program at 0x0100 is either a fixed test program or a probe:  *)
(* one opcode (primary or CB-prefixed) followed by two operand bytes.      *)
(***************************************************************************)
Seg(base, bytes) == [a \in base .. (base + Len(bytes) - 1) |-> bytes[a - base + 1]]

CommonRom ==
    Seg(\h0000, <<\hC3, \h50>>) @@ Seg(\h0040, <<\hFB>>) @@ Seg(\h0048, <<\hFB>>)
    @@ Seg(\h0050, <<\hFB>>) @@ Seg(\h0058, <<\hFB>>) @@ Seg(\h0060, <<\hFB>>)
    @@ Seg(\h1234, <<\hC9>>) @@ Seg(\h3434, <<\hC9>>)
    @@ Seg(\h3FFF, <<\h3F>>) @@ Seg(\h4000, <<\h12, \h34>>)
    @@ Seg(\h4040, <<\hFF, \hA5>>) @@ Seg(\h7FFF, <<\h7F>>)

Programs == <<
    \* 1: POP AF from bytes 0xFF 0xA5 in ROM, PUSH AF, CCF, SCF, RLA
    <<\h21, \h40, \h40, \hF9, \hF1, \hF5, \h3F, \h37, \h17, \hF1>>,
    \* 2: enable and request all five interrupts: IE := 0x1F, IF := 0x1F
    <<\h3E, \h1F, \hE0, \hFF, \hFB, \hE0, \h0F, \h00, \h00, \h00, \h00, \h00>>,
    \* 3: HRAM stack, CALL / RET, a store to work RAM and its echo
    <<\h21, \hFE, \hFF, \hF9, \hCD, \h10, \h10, \h21, \h00, \hD0, \h36, \h5A,
      \h21, \h00, \hF0, \h7E>>,
    \* 4: a data read of 0x0100, then arithmetic on it
    <<\h21, \h00, \h01, \h7E, \h86, \h8E, \h96, \h9E, \h27, \hBE, \h34, \h35>>,
    \* 5: HALT, STOP and an illegal opcode
    <<\h76, \h00, \h10, \h00, \hD3, \h00>>,
    \* 6: a jump to 0xFFFF, where the byte (IE) is 0x00, NOP
    <<\hC3, \hFF, \hFF>>,
    \* 7: IE := 0x3E, then a jump to 0xFFFF: LD A,n8 with its operand at 0x0000
    <<\h3E, \h3E, \hE0, \hFF, \hC3, \hFF, \hFF>>,
    \* 8: CALL 0x1234 with the stack in HRAM; there is a RET at 0x1234 and at 0x3434
    <<\hCD, \h34, \h12, \h00>>
>>

NProgs == Len(Programs)

Carts ==
    [kind : {"op", "cb"}, n : 0 .. 255] \cup [kind : {"prog"}, n : 1 .. NProgs]

ProgRom(cart) ==
    CASE cart.kind = "op" -> Seg(\h0100, <<cart.n, \h40, \h40>>)
      [] cart.kind = "cb" -> Seg(\h0100, <<\hCB, cart.n, \h40>>)
      [] OTHER -> Seg(\h0100, Programs[cart.n])

\* Cartridge.file: the bytes of the image (offsets not in the domain hold 0)
CartFile(cart) == ProgRom(cart) @@ CommonRom

\* Cartridge::read_bank_0, read_bank_n: file[0..16384], file[16384..32768]
read_bank_0(cart) ==
    LET file == CartFile(cart)
    IN  [i \in {j \in DOMAIN file : j < 16384} |-> file[i]]

read_bank_n(cart) ==
    LET file == CartFile(cart)
    IN  [i \in {j - 16384 : j \in {k \in DOMAIN file : k >= 16384 /\ k < 32768}} |->
            file[i + 16384]]

(***************************************************************************)
(* MMU (src/src/gameboy/mmu.rs).                                           *)
(***************************************************************************)
BIOS == <<
    \h31, \hFE, \hFF, \hAF, \h21, \hFF, \h9F, \h32, \hCB, \h7C, \h20, \hFB, \h21, \h26, \hFF, \h0E,
    \h11, \h3E, \h80, \h32, \hE2, \h0C, \h3E, \hF3, \hE2, \h32, \h3E, \h77, \h77, \h3E, \hFC, \hE0,
    \h47, \h11, \h04, \h01, \h21, \h10, \h80, \h1A, \hCD, \h95, \h00, \hCD, \h96, \h00, \h13, \h7B,
    \hFE, \h34, \h20, \hF3, \h11, \hD8, \h00, \h06, \h08, \h1A, \h13, \h22, \h23, \h05, \h20, \hF9,
    \h3E, \h19, \hEA, \h10, \h99, \h21, \h2F, \h99, \h0E, \h0C, \h3D, \h28, \h08, \h32, \h0D, \h20,
    \hF9, \h2E, \h0F, \h18, \hF3, \h67, \h3E, \h64, \h57, \hE0, \h42, \h3E, \h91, \hE0, \h40, \h04,
    \h1E, \h02, \h0E, \h0C, \hF0, \h44, \hFE, \h90, \h20, \hFA, \h0D, \h20, \hF7, \h1D, \h20, \hF2,
    \h0E, \h13, \h24, \h7C, \h1E, \h83, \hFE, \h62, \h28, \h06, \h1E, \hC1, \hFE, \h64, \h20, \h06,
    \h7B, \hE2, \h0C, \h3E, \h87, \hF2, \hF0, \h42, \h90, \hE0, \h42, \h15, \h20, \hD2, \h05, \h20,
    \h4F, \h16, \h20, \h18, \hCB, \h4F, \h06, \h04, \hC5, \hCB, \h11, \h17, \hC1, \hCB, \h11, \h17,
    \h05, \h20, \hF5, \h22, \h23, \h22, \h23, \hC9, \hCE, \hED, \h66, \h66, \hCC, \h0D, \h00, \h0B,
    \h03, \h73, \h00, \h83, \h00, \h0C, \h00, \h0D, \h00, \h08, \h11, \h1F, \h88, \h89, \h00, \h0E,
    \hDC, \hCC, \h6E, \hE6, \hDD, \hDD, \hD9, \h99, \hBB, \hBB, \h67, \h63, \h6E, \h0E, \hEC, \hCC,
    \hDD, \hDC, \h99, \h9F, \hBB, \hB9, \h33, \h3E, \h3C, \h42, \hB9, \hA5, \hB9, \hA5, \h42, \h4C,
    \h21, \h04, \h01, \h11, \hA8, \h00, \h1A, \h13, \hBE, \h20, \hFE, \h23, \h7D, \hFE, \h34, \h20,
    \hF5, \h06, \h19, \h78, \h86, \h23, \h05, \h20, \hFB, \h86, \h20, \hFE, \h3E, \h01, \hE0, \h50
>>

new_mmu(cart) ==
    [in_bios |-> TRUE,
     rom_bank0 |-> read_bank_0(cart),
     rom_bankx |-> read_bank_n(cart),
     g_ram   |-> EmptyArr,
     e_ram   |-> EmptyArr,
     w_ram   |-> EmptyArr,
     s_info  |-> EmptyArr,
     mm_io   |-> EmptyArr,
     z_ram   |-> EmptyArr,
     cart    |-> cart]

\* array lengths of struct MMU
LenGRam == 24576
LenERam == 8192
LenWRam == 8192
LenSInfo == 160
LenZRam == 128

\* what a read returns: the MMU after it, the byte, and whether it returned
RbRet(m, v, ok) == [m |-> m, v |-> v, ok |-> ok]

\* MMU::rb
rb(m, addr) ==
    LET top == BitAnd(addr, \hF000)
        sub == BitAnd(addr, \h0F00)
    IN  CASE top = \h0000 ->
                IF m.in_bios /\ addr < \h0100
                THEN RbRet(m, BIOS[addr + 1], TRUE)
                ELSE RbRet(IF m.in_bios /\ addr = \h0100
                           THEN [m EXCEPT !.in_bios = FALSE] ELSE m,
                           ArrGet(m.rom_bank0, addr), TRUE)
          [] top \in {\h1000, \h2000, \h3000} ->
                RbRet(m, ArrGet(m.rom_bank0, addr), TRUE)
          [] top \in {\h4000, \h5000, \h6000, \h7000} ->
                RbRet(m, ArrGet(m.rom_bankx, addr - \h4000), TRUE)
          [] top \in {\h8000, \h9000} ->
                RbRet(m, ArrGet(m.g_ram, addr - \h8000), InRange(addr - \h8000, LenGRam))
          [] top \in {\hA000, \hB000} ->
                RbRet(m, ArrGet(m.e_ram, addr - \hA000), InRange(addr - \hA000, LenERam))
          [] top \in {\hC000, \hD000} ->
                RbRet(m, ArrGet(m.w_ram, addr - \hC000), InRange(addr - \hC000, LenWRam))
          [] top = \hE000 ->
                RbRet(m, ArrGet(m.w_ram, addr - \hE000), InRange(addr - \hE000, LenWRam))
          [] OTHER ->
                CASE sub <= \h0D00 ->
                        RbRet(m, ArrGet(m.w_ram, addr - \hF000),
                              InRange(addr - \hF000, LenWRam))
                  [] sub = \h0E00 ->
                        IF addr < \hFEA0
                        THEN RbRet(m, ArrGet(m.s_info, addr - \hFEFF),
                                   InRange(addr - \hFEFF, LenSInfo))
                        ELSE RbRet(m, 0, TRUE)
                  [] OTHER ->
                        IF addr < \hFF80
                        THEN RbRet(m, 0, TRUE)
                        ELSE RbRet(m, ArrGet(m.z_ram, addr - \hFF80),
                                   InRange(addr - \hFF80, LenZRam))

\* MMU::rw
rw(m, addr) ==
    LET Sum(r1, r2) == RbRet(r2.m, r1.v + r2.v * 256, r1.ok /\ r2.ok)
        Second(r1) == Sum(r1, rb(r1.m, addr))
    IN  Second(rb(m, addr))

\* what a write returns: the MMU after it and whether it returned
WbRet(m, ok) == [m |-> m, ok |-> ok]

\* MMU::wb
wb(m, addr, val) ==
    LET top == BitAnd(addr, \hF000)
        sub == BitAnd(addr, \h0F00)
    IN  CASE top \in {\h0000, \h1000, \h2000, \h3000, \h4000, \h5000, \h6000, \h7000} ->
                WbRet(m, TRUE)
          [] top \in {\h8000, \h9000} ->
                WbRet([m EXCEPT !.g_ram = ArrSet(@, addr - \h8000, val)],
                      InRange(addr - \h8000, LenGRam))
          [] top \in {\hA000, \hB000} ->
                WbRet([m EXCEPT !.e_ram = ArrSet(@, addr - \hA000, val)],
                      InRange(addr - \hA000, LenERam))
          [] top \in {\hC000, \hD000} ->
                WbRet([m EXCEPT !.w_ram = ArrSet(@, addr - \hC000, val)],
                      InRange(addr - \hC000, LenWRam))
          [] top = \hE000 ->
                WbRet([m EXCEPT !.w_ram = ArrSet(@, addr - \hE000, val)],
                      InRange(addr - \hE000, LenWRam))
          [] OTHER ->
                CASE sub <= \h0D00 ->
                        WbRet([m EXCEPT !.w_ram = ArrSet(@, addr - \hF000, val)],
                              InRange(addr - \hF000, LenWRam))
                  [] sub = \h0E00 ->
                        IF addr < \hFEA0
                        THEN WbRet([m EXCEPT !.s_info = ArrSet(@, addr - \hFEFF, val)],
                                   InRange(addr - \hFEFF, LenSInfo))
                        ELSE WbRet(m, TRUE)
                  [] OTHER ->
                        WbRet([m EXCEPT !.z_ram = ArrSet(@, addr - \hFF80, val)],
                              InRange(addr - \hFF80, LenZRam))

\* addr + 1 on a u16: a panic with overflow checks, a wrap to 0 without
AddrPlus1Ok(addr) == ~(overflow_checks /\ addr = \hFFFF)

\* MMU::ww
ww(m, addr, val) ==
    LET Both(w1, w2) == WbRet(w2.m, w1.ok /\ AddrPlus1Ok(addr) /\ w2.ok)
        Second(w1) == Both(w1, wb(w1.m, U16(addr + 1), val \div 256))
    IN  Second(wb(m, addr, U8(val)))

(***************************************************************************)
(* KeyReg (src/src/gameboy/keys.rs).  Each method holds the lock(s) it     *)
(* takes for its whole body and is modelled as one atomic step.            *)
(***************************************************************************)
Keys == {"A", "B", "START", "SELECT", "UP", "DOWN", "LEFT", "RIGHT"}

new_key_reg == [column |-> 0, rows |-> <<\h0F, \h0F>>]

set_column(k, val) == [k EXCEPT !.column = BitAnd(val, \h30)]

get_keys(k) ==
    CASE k.column = \h10 -> k.rows[1]
      [] k.column = \h20 -> k.rows[2]
      [] OTHER -> 0

\* the row (1-based) a key lives in and the mask key_down ANDs into it
KeyRow(key) == IF key \in {"A", "B", "START", "SELECT"} THEN 1 ELSE 2

\* masks that clear the bit of the neighbouring key: A and B, RIGHT and LEFT exchanged
KeyDownMask_exchanged(key) ==
    CASE key \in {"A", "RIGHT"} -> \h0D
      [] key \in {"B", "LEFT"} -> \h0E
      [] key \in {"START", "DOWN"} -> \h07
      [] OTHER -> \h0B

KeyDownMask(key) ==
    CASE key \in {"A", "RIGHT"} -> \h0E
      [] key \in {"B", "LEFT"} -> \h0D
      [] key \in {"START", "DOWN"} -> \h07
      [] OTHER -> \h0B

KeyUpMask(key) ==
    CASE key \in {"A", "RIGHT"} -> \h01
      [] key \in {"B", "LEFT"} -> \h02
      [] key \in {"START", "DOWN"} -> \h08
      [] OTHER -> \h04

key_down(k, key) == [k EXCEPT !.rows[KeyRow(key)] = BitAnd(@, KeyDownMask(key))]

key_up(k, key) == [k EXCEPT !.rows[KeyRow(key)] = BitOr(@, KeyUpMask(key))]

(***************************************************************************)
(* The MMU and KeyReg interface, driven by an arbitrary caller: the        *)
(* specification SpecMmu.  Addresses are drawn from every region of the    *)
(* memory map and from both ends of the regions the properties speak of.   *)
(***************************************************************************)
MmuAddrs ==
    {\h0000, \h0100, \h4000, \h8000, \hC000, \hD000, \hE000, \hF000, \hFE00, \hFEA0,
     \hFF00, \hFF0F, \hFF44, \hFF80, \hFFFF}
WordAddrs == {\h4000, \hC000, \hFFFF}
MmuVals == {\h5A, \hA5}
MmuWords == {\h1234}
ColumnVals == {\h10, \h20, \hFF}

NoOp ==
    [op |-> "none", addr |-> 0, val |-> 0, ret |-> 0, t |-> 0, irq |-> 0, ok |-> TRUE,
     pre |-> cpu]

Call(op, addr, val, ret, ok) ==
    [op |-> op, addr |-> addr, val |-> val, ret |-> ret, t |-> 0, irq |-> 0, ok |-> ok,
     pre |-> cpu]

\* history of stores: the byte last stored at each address by a completed wb / ww
NoteWrite(w, addr, val) == [a \in (DOMAIN w) \cup {addr} |-> IF a = addr THEN val ELSE w[a]]

CallerReady == ~panicked /\ nops < MaxOps

MmuRb(addr) ==
    /\ CallerReady
    /\ \E r \in {rb(mmu, addr)} :
           /\ mmu' = IF r.ok THEN r.m ELSE mmu
           /\ panicked' = ~r.ok
           /\ last_op' = Call("rb", addr, 0, IF r.ok THEN r.v ELSE 0, r.ok)
    /\ nops' = nops + 1
    /\ UNCHANGED <<cpu, key_reg, overflow_checks, debug_gb_doctor, written, dispatched>>
    /\ UNCHANGED <<gpuVars, held, threadVars>>

MmuRw(addr) ==
    /\ CallerReady
    /\ \E r \in {rw(mmu, addr)} :
           /\ mmu' = IF r.ok THEN r.m ELSE mmu
           /\ panicked' = ~r.ok
           /\ last_op' = Call("rw", addr, 0, IF r.ok THEN r.v ELSE 0, r.ok)
    /\ nops' = nops + 1
    /\ UNCHANGED <<cpu, key_reg, overflow_checks, debug_gb_doctor, written, dispatched>>
    /\ UNCHANGED <<gpuVars, held, threadVars>>

MmuWb(addr, val) ==
    /\ CallerReady
    /\ \E r \in {wb(mmu, addr, val)} :
           /\ mmu' = IF r.ok THEN r.m ELSE mmu
           /\ panicked' = ~r.ok
           /\ last_op' = Call("wb", addr, val, 0, r.ok)
           /\ written' = IF r.ok THEN NoteWrite(written, addr, val) ELSE written
    /\ nops' = nops + 1
    /\ UNCHANGED <<cpu, key_reg, overflow_checks, debug_gb_doctor, dispatched>>
    /\ UNCHANGED <<gpuVars, held, threadVars>>

MmuWw(addr, val) ==
    /\ CallerReady
    /\ \E r \in {ww(mmu, addr, val)} :
           /\ mmu' = IF r.ok THEN r.m ELSE mmu
           /\ panicked' = ~r.ok
           /\ last_op' = Call("ww", addr, val, 0, r.ok)
           /\ written' = IF r.ok
                         THEN NoteWrite(NoteWrite(written, addr, U8(val)),
                                        U16(addr + 1), val \div 256)
                         ELSE written
    /\ nops' = nops + 1
    /\ UNCHANGED <<cpu, key_reg, overflow_checks, debug_gb_doctor, dispatched>>
    /\ UNCHANGED <<gpuVars, held, threadVars>>

KeySetColumn(val) ==
    /\ CallerReady
    /\ key_reg' = set_column(key_reg, val)
    /\ last_op' = Call("set_column", 0, val, 0, TRUE)
    /\ nops' = nops + 1
    /\ UNCHANGED <<cpu, mmu, panicked, overflow_checks, debug_gb_doctor, written, dispatched>>
    /\ UNCHANGED <<gpuVars, held, threadVars>>

KeyGetKeys ==
    /\ CallerReady
    /\ last_op' = Call("get_keys", 0, 0, get_keys(key_reg), TRUE)
    /\ nops' = nops + 1
    /\ UNCHANGED <<cpu, mmu, key_reg, panicked, overflow_checks, debug_gb_doctor, written, dispatched>>
    /\ UNCHANGED <<gpuVars, held, threadVars>>

KeyDown(key) ==
    /\ CallerReady
    /\ key_reg' = key_down(key_reg, key)
    /\ last_op' = Call("key_down", 0, 0, 0, TRUE)
    /\ nops' = nops + 1
    /\ UNCHANGED <<cpu, mmu, panicked, overflow_checks, debug_gb_doctor, written, dispatched>>
    /\ held' = held \cup {key}
    /\ UNCHANGED <<gpuVars, threadVars>>

KeyUp(key) ==
    /\ CallerReady
    /\ key_reg' = key_up(key_reg, key)
    /\ last_op' = Call("key_up", 0, 0, 0, TRUE)
    /\ nops' = nops + 1
    /\ UNCHANGED <<cpu, mmu, panicked, overflow_checks, debug_gb_doctor, written, dispatched>>
    /\ held' = held \ {key}
    /\ UNCHANGED <<gpuVars, threadVars>>

(***************************************************************************)
(* CPU (src/src/gameboy/cpu.rs).  The operators below work on a machine    *)
(* record s: the fields of struct CPU, the MMU borrowed for the call       *)
(* (s.mmu) and s.ok, which turns FALSE at the first panic and stays so.    *)
(* An instruction handler returns the machine after it and the machine     *)
(* cycles it reports.                                                      *)
(***************************************************************************)
FLAG_ZERO == 128            \* 0x80
FLAG_SUB == 64              \* 0x40
FLAG_HALF_CARRY == 32       \* 0x20
FLAG_CARRY == 16            \* 0x10

FLAG_INT_VBLANK == 1        \* 0x01
FLAG_INT_LCD_STAT == 2      \* 0x02
FLAG_INT_TIMER == 4         \* 0x04
FLAG_INT_SERIAL == 8        \* 0x08
FLAG_INT_JOYP == 16         \* 0x10

REG_INTERRUPTS == 65295     \* 0xFF0F

\* new_cpu: the two register sets, chosen by the constant DEBUG_GB_DOCTOR
new_cpu(doctor) ==
    IF doctor
    THEN [clock_m |-> 0, clock_t |-> 0,
          reg_a |-> \h01, reg_b |-> \h00, reg_c |-> \h13, reg_d |-> \h00,
          reg_e |-> \hD8, reg_f |-> \hB0, reg_h |-> \h01, reg_l |-> \h4D,
          reg_pc |-> \h0100, reg_sp |-> \hFFFE,
          ime |-> TRUE, halt |-> FALSE, stop |-> FALSE]
    ELSE [clock_m |-> 0, clock_t |-> 0,
          reg_a |-> 0, reg_b |-> 0, reg_c |-> 0, reg_d |-> 0,
          reg_e |-> 0, reg_f |-> 0, reg_h |-> 0, reg_l |-> 0,
          reg_pc |-> 0, reg_sp |-> 0,
          ime |-> TRUE, halt |-> FALSE, stop |-> FALSE]

CpuFields == DOMAIN new_cpu(TRUE)

Mach(c, m) == c @@ [mmu |-> m, ok |-> TRUE]

CpuOf(s) == [f \in CpuFields |-> s[f]]

\* wrapping arithmetic of u8 / u16 (wrapping_add, wrapping_sub, overflowing_*)
Wrap8(x) == (x + 256) % 256
Wrap16(x) == (x + 65536) % 65536

\* checked arithmetic of a u16 (+=, -=, +, -): the result wraps and, in a
\* build with overflow checks, an out-of-range result panics
Chk16(s, x) == [v |-> Wrap16(x), ok |-> s.ok /\ ~(overflow_checks /\ (x < 0 \/ x > 65535))]

PcAdd(s, n) == LET r == Chk16(s, s.reg_pc + n) IN [s EXCEPT !.reg_pc = r.v, !.ok = r.ok]
SpAdd(s, n) == LET r == Chk16(s, s.reg_sp + n) IN [s EXCEPT !.reg_sp = r.v, !.ok = r.ok]
SpSub(s, n) == LET r == Chk16(s, s.reg_sp - n) IN [s EXCEPT !.reg_sp = r.v, !.ok = r.ok]

\* i8 as i16 of a byte
Signed8(b) == IF b >= 128 THEN b - 256 ELSE b

\* the machine after a call on the borrowed MMU that returned r (a read: r
\* carries the value read), and the calls mmu.rb / mmu.rw / mmu.wb / mmu.ww
AfterRead(s, r) == [s |-> [s EXCEPT !.mmu = r.m, !.ok = @ /\ r.ok], v |-> r.v]
AfterWrite(s, r) == [s EXCEPT !.mmu = r.m, !.ok = @ /\ r.ok]

MemRb(s, addr) == AfterRead(s, rb(s.mmu, addr))
MemRw(s, addr) == AfterRead(s, rw(s.mmu, addr))
MemWb(s, addr, val) == AfterWrite(s, wb(s.mmu, addr, val))
MemWw(s, addr, val) == AfterWrite(s, ww(s.mmu, addr, val))

\* let val = mmu.rb(self.reg_pc); self.reg_pc += 1;
Fetch8(s) ==
    LET Advance(r) == [s |-> PcAdd(r.s, 1), v |-> r.v]
    IN  Advance(MemRb(s, s.reg_pc))

Regs8 == {"A", "B", "C", "D", "E", "H", "L"}

RegField(r) ==
    CASE r = "A" -> "reg_a" [] r = "B" -> "reg_b" [] r = "C" -> "reg_c"
      [] r = "D" -> "reg_d" [] r = "E" -> "reg_e" [] r = "H" -> "reg_h"
      [] r = "L" -> "reg_l"

GetR8(s, r) == s[RegField(r)]
SetR8(s, r, v) == [s EXCEPT ![RegField(r)] = v]

\* ((hi as u16) << 8) + (lo as u16)
Pair(hi, lo) == hi * 256 + lo

HL(s) == Pair(s.reg_h, s.reg_l)

GetR16(s, r) ==
    CASE r = "BC" -> Pair(s.reg_b, s.reg_c)
      [] r = "DE" -> Pair(s.reg_d, s.reg_e)
      [] r = "HL" -> Pair(s.reg_h, s.reg_l)

SetR16(s, r, v) ==
    CASE r = "BC" -> [s EXCEPT !.reg_b = v \div 256, !.reg_c = v % 256]
      [] r = "DE" -> [s EXCEPT !.reg_d = v \div 256, !.reg_e = v % 256]
      [] r = "HL" -> [s EXCEPT !.reg_h = v \div 256, !.reg_l = v % 256]

Ret(s, cycles) == [s |-> s, cyc |-> cycles]

\* SetFlag::from(bool), SetFlag::from(u8): ON when the value is zero
FromBool(b) == IF b THEN "ON" ELSE "OFF"
FromZero(v) == IF v = 0 THEN "ON" ELSE "OFF"

SetBits(f, how, mask) ==
    CASE how = "ON" -> BitOr(f, mask)
      [] how = "OFF" -> BitAnd(f, Not8(mask))
      [] OTHER -> f

\* CPU::set_flags
set_flags(s, zero, carry, half_carry, sub) ==
    [s EXCEPT !.reg_f =
        SetBits(SetBits(SetBits(SetBits(@, zero, FLAG_ZERO), carry, FLAG_CARRY),
                        half_carry, FLAG_HALF_CARRY), sub, FLAG_SUB)]

CarrySet(s) == BitAnd(s.reg_f, FLAG_CARRY) > 0

\* the operand of an 8-bit instruction: a register, the byte at HL ("mhl"),
\* or the byte after the opcode ("n8").  An instruction binds the operand it
\* has read as the parameter of a local operator With(o), the machine after
\* the read being o.s and the byte o.v.
Operand(s, x) ==
    CASE x = "mhl" -> MemRb(s, HL(s))
      [] x = "n8" -> Fetch8(s)
      [] OTHER -> [s |-> s, v |-> GetR8(s, x)]

\* store the result of a read-modify-write on a register or on (HL)
Store(s, x, v) == IF x = "mhl" THEN MemWb(s, HL(s), v) ELSE SetR8(s, x, v)

Cyc(x, r8, mhl, n8) == CASE x = "mhl" -> mhl [] x = "n8" -> n8 [] OTHER -> r8

(***************************************************************************)
(* Arithmetic and logic                                                    *)
(***************************************************************************)
\* an ADC whose carry out forgets the overflow of adding the carry in
adc_a_first_carry(s, x) ==
    LET With(o) ==
            LET a == o.s.reg_a
                cin == IF CarrySet(o.s) THEN 1 ELSE 0
                res == Wrap8(Wrap8(a + o.v) + cin)
                carry == a + o.v > 255
                half_carry == Bit((a % 16) + (o.v % 16) + cin, 4) = 1
            IN  Ret(set_flags([o.s EXCEPT !.reg_a = res],
                              FromZero(res), FromBool(carry), FromBool(half_carry), "OFF"),
                    Cyc(x, 1, 2, 2))
    IN  With(Operand(s, x))

\* CPU::adc_a_r8, adc_a_mhl, adc_a_n8
adc_a(s, x) ==
    LET With(o) ==
            LET a == o.s.reg_a
                cin == IF CarrySet(o.s) THEN 1 ELSE 0
                res1 == Wrap8(a + o.v)
                res == Wrap8(res1 + cin)
                carry == (a + o.v > 255) \/ (cin = 1 /\ res1 = 255)
                half_carry == Bit((a % 16) + (o.v % 16) + cin, 4) = 1
            IN  Ret(set_flags([o.s EXCEPT !.reg_a = res],
                              FromZero(res), FromBool(carry), FromBool(half_carry), "OFF"),
                    Cyc(x, 1, 2, 2))
    IN  With(Operand(s, x))

\* CPU::add_a_r8, add_a_mhl, add_a_n8
add_a(s, x) ==
    LET With(o) ==
            LET a == o.s.reg_a
                res == Wrap8(a + o.v)
                carry == a + o.v > 255
                half_carry == Bit((a % 16) + (o.v % 16), 4) = 1
            IN  Ret(set_flags([o.s EXCEPT !.reg_a = res],
                              FromZero(res), FromBool(carry), FromBool(half_carry), "OFF"),
                    Cyc(x, 1, 2, 2))
    IN  With(Operand(s, x))

\* CPU::add_hl_r16, add_hl_sp (r = "SP")
add_hl(s, r) ==
    LET val == IF r = "SP" THEN s.reg_sp ELSE GetR16(s, r)
        hl == HL(s)
        res == Wrap16(hl + val)
        carry == hl + val > 65535
        half_carry == Bit((hl % 4096) + (val % 4096), 12) = 1
    IN  Ret(set_flags(SetR16(s, "HL", res),
                      "LEAVE", FromBool(carry), FromBool(half_carry), "OFF"), 2)

\* CPU::add_sp_e8
add_sp_e8(s) ==
    LET With(o) ==
            LET sp == o.s.reg_sp
                res == Wrap16(sp + Signed8(o.v))
                carry == (sp % 256) + o.v > 255
                half_carry == Bit(Wrap8((sp % 16) + (o.v % 16)), 4) = 1
            IN  Ret(set_flags([o.s EXCEPT !.reg_sp = res],
                              "OFF", FromBool(carry), FromBool(half_carry), "OFF"), 4)
    IN  With(Fetch8(s))

\* CPU::and_a_r8, and_a_mhl, and_a_n8
and_a(s, x) ==
    LET With(o) ==
            LET res == BitAnd(o.s.reg_a, o.v)
            IN  Ret(set_flags([o.s EXCEPT !.reg_a = res], FromZero(res), "OFF", "ON", "OFF"),
                    Cyc(x, 1, 1, 1))
    IN  With(Operand(s, x))

\* CPU::cp_a_r8, cp_a_mhl, cp_a_n8
cp_a(s, x) ==
    LET With(o) ==
            LET a == o.s.reg_a
                res == Wrap8(a - o.v)
                carry == a < o.v
                half_carry == Bit(Wrap8((a % 16) - (o.v % 16)), 4) = 1
            IN  Ret(set_flags(o.s, FromZero(res), FromBool(carry), FromBool(half_carry), "ON"),
                    Cyc(x, 1, 1, 1))
    IN  With(Operand(s, x))

\* CPU::dec_r8, dec_mhl
dec8(s, x) ==
    LET With(o) ==
            LET res == Wrap8(o.v - 1)
                half_carry == Bit(Wrap8((o.v % 16) - 1), 4) = 1
            IN  Ret(set_flags(Store(o.s, x, res), FromZero(res), "LEAVE", FromBool(half_carry), "ON"),
                    Cyc(x, 1, 3, 3))
    IN  With(Operand(s, x))

\* CPU::dec_r16
dec_r16(s, r) == Ret(SetR16(s, r, Wrap16(GetR16(s, r) - 1)), 2)

\* CPU::dec_sp
dec_sp(s) == Ret([s EXCEPT !.reg_sp = Wrap16(@ - 1)], 2)

\* CPU::inc_r8, inc_mhl
inc8(s, x) ==
    LET With(o) ==
            LET res == Wrap8(o.v + 1)
                half_carry == Bit((o.v % 16) + 1, 4) = 1
            IN  Ret(set_flags(Store(o.s, x, res), FromZero(res), "LEAVE", FromBool(half_carry), "OFF"),
                    Cyc(x, 1, 3, 3))
    IN  With(Operand(s, x))

\* CPU::inc_r16
inc_r16(s, r) == Ret(SetR16(s, r, Wrap16(GetR16(s, r) + 1)), 2)

\* CPU::inc_sp
inc_sp(s) == Ret([s EXCEPT !.reg_sp = Wrap16(@ + 1)], 2)

\* CPU::or_a_r8, or_a_mhl, or_a_n8
or_a(s, x) ==
    LET With(o) ==
            LET res == BitOr(o.s.reg_a, o.v)
            IN  Ret(set_flags([o.s EXCEPT !.reg_a = res], FromZero(res), "OFF", "OFF", "OFF"),
                    Cyc(x, 1, 1, 1))
    IN  With(Operand(s, x))

\* CPU::sbc_a_r8, sbc_a_mhl, sbc_a_n8
sbc_a(s, x) ==
    LET With(o) ==
            LET a == o.s.reg_a
                cin == IF CarrySet(o.s) THEN 1 ELSE 0
                res1 == Wrap8(a - o.v)
                res == Wrap8(res1 - cin)
                carry == (a < o.v) \/ (cin = 1 /\ res1 = 0)
                half_carry == Bit(Wrap8(Wrap8((a % 16) - (o.v % 16)) - cin), 4) = 1
            IN  Ret(set_flags([o.s EXCEPT !.reg_a = res],
                              FromZero(res), FromBool(carry), FromBool(half_carry), "ON"),
                    Cyc(x, 1, 2, 2))
    IN  With(Operand(s, x))

\* CPU::sub_a_r8, sub_a_mhl, sub_a_n8
sub_a(s, x) ==
    LET With(o) ==
            LET a == o.s.reg_a
                res == Wrap8(a - o.v)
                carry == a < o.v
                half_carry == Bit(Wrap8((a % 16) - (o.v % 16)), 4) = 1
            IN  Ret(set_flags([o.s EXCEPT !.reg_a = res],
                              FromZero(res), FromBool(carry), FromBool(half_carry), "ON"),
                    Cyc(x, 1, 2, 2))
    IN  With(Operand(s, x))

\* CPU::xor_a_r8, xor_a_mhl, xor_a_n8
xor_a(s, x) ==
    LET With(o) ==
            LET res == BitXor(o.s.reg_a, o.v)
            IN  Ret(set_flags([o.s EXCEPT !.reg_a = res], FromZero(res), "OFF", "OFF", "OFF"),
                    Cyc(x, 1, 1, 1))
    IN  With(Operand(s, x))

(***************************************************************************)
(* Bit operations and bit shifts; x is a register or "mhl"                 *)
(***************************************************************************)
\* CPU::bit_u3_r8, bit_u3_mhl
bit_u3(s, u, x) ==
    LET With(o) ==
            Ret(set_flags(o.s, FromZero(BitAnd(o.v, Pow2(u))), "LEAVE", "ON", "OFF"),
                    Cyc(x, 2, 3, 3))
    IN  With(Operand(s, x))

\* CPU::res_u3_r8, res_u3_mhl
res_u3(s, u, x) ==
    LET With(o) ==
            Ret(Store(o.s, x, BitAnd(o.v, Not8(Pow2(u)))), Cyc(x, 2, 4, 4))
    IN  With(Operand(s, x))

\* CPU::set_u3_r8, set_u3_mhl
set_u3(s, u, x) ==
    LET With(o) ==
            Ret(Store(o.s, x, BitOr(o.v, Pow2(u))), Cyc(x, 2, 4, 4))
    IN  With(Operand(s, x))

\* u8::rotate_left / rotate_right
RotL8(v, n) == ((v * Pow2(n)) % 256) + (v \div Pow2(8 - n))
RotR8(v, n) == (v \div Pow2(n)) + ((v * Pow2(8 - n)) % 256)

\* a read-modify-write shift: store res, Z from res, C from new_carry
Shift(o, x, res, new_carry) ==
    Ret(set_flags(Store(o.s, x, res), FromZero(res), FromBool(new_carry), "OFF", "OFF"),
        Cyc(x, 2, 4, 4))

\* CPU::swap_r8, swap_mhl
swap(s, x) ==
    LET With(o) ==
            LET res == RotL8(o.v, 4)
            IN  Ret(set_flags(Store(o.s, x, res), FromZero(res), "OFF", "OFF", "OFF"),
                    Cyc(x, 2, 4, 4))
    IN  With(Operand(s, x))

RlRes(s, val) == ((val * 2) % 256) + (IF CarrySet(s) THEN 1 ELSE 0)
RrRes(s, val) == (val \div 2) + (IF CarrySet(s) THEN \h80 ELSE 0)

\* CPU::rl_r8, rl_mhl
rl(s, x) ==
    LET With(o) == Shift(o, x, RlRes(o.s, o.v), o.v >= 128)
    IN  With(Operand(s, x))

\* CPU::rlc_r8, rlc_mhl
rlc(s, x) ==
    LET With(o) == Shift(o, x, RotL8(o.v, 1), o.v >= 128)
    IN  With(Operand(s, x))

\* CPU::rr_r8, rr_mhl
rr(s, x) ==
    LET With(o) == Shift(o, x, RrRes(o.s, o.v), o.v % 2 = 1)
    IN  With(Operand(s, x))

\* CPU::rrc_r8, rrc_mhl
rrc(s, x) ==
    LET With(o) == Shift(o, x, RotR8(o.v, 1), o.v % 2 = 1)
    IN  With(Operand(s, x))

\* CPU::sla_r8, sla_mhl
sla(s, x) ==
    LET With(o) == Shift(o, x, (o.v * 2) % 256, o.v >= 128)
    IN  With(Operand(s, x))

\* CPU::sra_r8, sra_mhl
sra(s, x) ==
    LET With(o) ==
            Shift(o, x, (o.v \div 2) + BitAnd(o.v, \h80), o.v % 2 = 1)
    IN  With(Operand(s, x))

\* CPU::srl_r8, srl_mhl
srl(s, x) ==
    LET With(o) == Shift(o, x, o.v \div 2, o.v % 2 = 1)
    IN  With(Operand(s, x))

\* the accumulator rotates: Z is always cleared, one cycle
RotA(s, res, new_carry) ==
    Ret(set_flags([s EXCEPT !.reg_a = res], "OFF", FromBool(new_carry), "OFF", "OFF"), 1)

\* CPU::rla
rla(s) == RotA(s, RlRes(s, s.reg_a), s.reg_a >= 128)

\* CPU::rlca
rlca(s) == RotA(s, RotL8(s.reg_a, 1), s.reg_a >= 128)

\* CPU::rra
rra(s) == RotA(s, RrRes(s, s.reg_a), s.reg_a % 2 = 1)

\* CPU::rrca
rrca(s) == RotA(s, RotR8(s.reg_a, 1), s.reg_a % 2 = 1)

(***************************************************************************)
(* Load operations                                                         *)
(***************************************************************************)
\* CPU::ld_r8_r8
ld_r8_r8(s, r_left, r_right) == Ret(SetR8(s, r_left, GetR8(s, r_right)), 1)

\* CPU::ld_r8_n8
ld_r8_n8(s, r) ==
    LET With(o) == Ret(SetR8(o.s, r, o.v), 2)
    IN  With(Fetch8(s))

\* CPU::ld_r16_n16: the first byte read goes to the second register of the pair
ld_r16_n16(s, r) ==
    LET upper == Fetch8(s)
        lower == Fetch8(upper.s)
    IN  Ret(SetR16(lower.s, r, Pair(lower.v, upper.v)), 3)

\* CPU::ld_mhl_r8
ld_mhl_r8(s, r) == Ret(MemWb(s, HL(s), GetR8(s, r)), 2)

\* CPU::ld_mhl_n8
ld_mhl_n8(s) ==
    LET With(o) == Ret(MemWb(o.s, HL(o.s), o.v), 3)
    IN  With(Fetch8(s))

\* CPU::ld_r8_mhl
ld_r8_mhl(s, r) ==
    LET With(o) == Ret(SetR8(o.s, r, o.v), 2)
    IN  With(MemRb(s, HL(s)))

\* CPU::ld_a_mr16
ld_a_mr16(s, r) ==
    LET With(o) == Ret([o.s EXCEPT !.reg_a = o.v], 2)
    IN  With(MemRb(s, GetR16(s, r)))

\* CPU::ld_mr16_a
ld_mr16_a(s, r) == Ret(MemWb(s, GetR16(s, r), s.reg_a), 2)

\* CPU::ld_a_mn16
ld_a_mn16(s) ==
    LET addr == MemRw(s, s.reg_pc)
        o == MemRb(addr.s, addr.v)
    IN  Ret(PcAdd([o.s EXCEPT !.reg_a = o.v], 2), 2)

\* CPU::ld_mn16_a
ld_mn16_a(s) ==
    LET With(addr) ==
            Ret(MemWb(PcAdd(addr.s, 2), addr.v, s.reg_a), 4)
    IN  With(MemRw(s, s.reg_pc))

\* CPU::ldh_mn16_a
ldh_mn16_a(s) ==
    LET With(o) == Ret(MemWb(o.s, o.v + \hFF00, s.reg_a), 3)
    IN  With(Fetch8(s))

\* CPU::ldh_mc_a
ldh_mc_a(s) == Ret(MemWb(s, s.reg_c + \hFF00, s.reg_a), 2)

\* CPU::ldh_a_mn16
ldh_a_mn16(s) ==
    LET o == Fetch8(s)
        r == MemRb(o.s, o.v + \hFF00)
    IN  Ret([r.s EXCEPT !.reg_a = r.v], 3)

\* CPU::ldh_a_mc
ldh_a_mc(s) ==
    LET With(r) == Ret([r.s EXCEPT !.reg_a = r.v], 2)
    IN  With(MemRb(s, s.reg_c + \hFF00))

\* the HL increment / decrement of the (HL+) and (HL-) loads
HlInc(s) == SetR16(s, "HL", Wrap16(HL(s) + 1))
HlDec(s) == SetR16(s, "HL", Wrap16(HL(s) - 1))

\* CPU::ld_hli_a
ld_hli_a(s) == Ret(HlInc(MemWb(s, HL(s), s.reg_a)), 2)

\* CPU::ld_hld_a
ld_hld_a(s) == Ret(HlDec(MemWb(s, HL(s), s.reg_a)), 2)

\* CPU::ld_a_hli
ld_a_hli(s) ==
    LET With(o) == Ret(HlInc([o.s EXCEPT !.reg_a = o.v]), 2)
    IN  With(MemRb(s, HL(s)))

\* CPU::ld_a_hld
ld_a_hld(s) ==
    LET With(o) == Ret(HlDec([o.s EXCEPT !.reg_a = o.v]), 2)
    IN  With(MemRb(s, HL(s)))

\* CPU::ld_sp_n16
ld_sp_n16(s) ==
    LET With(o) ==
            Ret(PcAdd([o.s EXCEPT !.reg_sp = o.v], 2), 3)
    IN  With(MemRw(s, s.reg_pc))

\* CPU::ld_mn16_sp
ld_mn16_sp(s) ==
    LET With(addr) ==
            Ret(MemWw(PcAdd(addr.s, 2), addr.v, s.reg_sp), 5)
    IN  With(MemRw(s, s.reg_pc))

\* CPU::ld_hl_spe8
ld_hl_spe8(s) ==
    LET With(o) ==
            LET sp == o.s.reg_sp
                res == Wrap16(sp + Signed8(o.v))
                carry == (sp % 256) + o.v > 255
                half_carry == Bit(Wrap8((sp % 16) + (o.v % 16)), 4) = 1
            IN  Ret(set_flags(SetR16(o.s, "HL", res),
                              "OFF", FromBool(carry), FromBool(half_carry), "OFF"), 3)
    IN  With(Fetch8(s))

\* CPU::ld_sp_hl
ld_sp_hl(s) == Ret([s EXCEPT !.reg_sp = HL(s)], 2)

(***************************************************************************)
(* Jumps and subroutines                                                   *)
(***************************************************************************)
\* the match on CC in the conditional jumps
Should(s, c) ==
    CASE c = "Z" -> BitAnd(s.reg_f, FLAG_ZERO) > 0
      [] c = "NZ" -> BitAnd(s.reg_f, FLAG_ZERO) = 0
      [] c = "C" -> BitAnd(s.reg_f, FLAG_CARRY) > 0
      [] c = "NC" -> BitAnd(s.reg_f, FLAG_CARRY) = 0

\* CPU::call_n16
call_n16(s) ==
    LET s1 == SpSub(s, 2)
        ra == Chk16(s1, s1.reg_pc + 2)
        s2 == MemWw([s1 EXCEPT !.ok = ra.ok], s1.reg_sp, ra.v)
        t == MemRw(s2, s2.reg_pc)
    IN  Ret([t.s EXCEPT !.reg_pc = t.v], 6)

\* CPU::call_cc_n16
call_cc_n16(s, c) == IF Should(s, c) THEN call_n16(s) ELSE Ret(PcAdd(s, 2), 3)

\* CPU::jp_n16
jp_n16(s) ==
    LET With(t) == Ret([t.s EXCEPT !.reg_pc = t.v], 4)
    IN  With(MemRw(s, s.reg_pc))

\* CPU::jp_cc_n16
jp_cc_n16(s, c) == IF Should(s, c) THEN jp_n16(s) ELSE Ret(PcAdd(s, 2), 3)

\* CPU::jp_mhl
jp_mhl(s) == Ret([s EXCEPT !.reg_pc = HL(s)], 1)

\* CPU::jr_n16
jr_n16(s) ==
    LET With(o) ==
            Ret([o.s EXCEPT !.reg_pc = Wrap16(@ + Signed8(o.v))], 3)
    IN  With(Fetch8(s))

\* CPU::jr_cc_n16
jr_cc_n16(s, c) == IF Should(s, c) THEN jr_n16(s) ELSE Ret(PcAdd(s, 1), 2)

\* self.reg_pc = mmu.rw(self.reg_sp); self.reg_sp += 2;
PopPc(s) ==
    LET With(t) == SpAdd([t.s EXCEPT !.reg_pc = t.v], 2)
    IN  With(MemRw(s, s.reg_sp))

\* CPU::ret
ret(s) == Ret(PopPc(s), 4)

\* CPU::ret_cc
ret_cc(s, c) == IF Should(s, c) THEN Ret(PopPc(s), 5) ELSE Ret(s, 2)

\* CPU::reti
reti(s) == Ret(PopPc([s EXCEPT !.ime = TRUE]), 4)

\* CPU::rst
rst(s, vec) ==
    LET s1 == SpSub(s, 2)
        s2 == MemWw(s1, s1.reg_sp, s1.reg_pc)
    IN  Ret([s2 EXCEPT !.reg_pc = vec], 4)

(***************************************************************************)
(* Stack operations                                                        *)
(***************************************************************************)
\* pop_af without the mask on the byte popped into F
pop_af_unmasked(s) ==
    LET lo == MemRb(s, s.reg_sp)
        s1 == SpAdd([lo.s EXCEPT !.reg_f = lo.v], 1)
        hi == MemRb(s1, s1.reg_sp)
    IN  Ret(SpAdd([hi.s EXCEPT !.reg_a = hi.v], 1), 3)

\* CPU::pop_af
pop_af(s) ==
    LET lo == MemRb(s, s.reg_sp)
        s1 == SpAdd([lo.s EXCEPT !.reg_f = BitAnd(lo.v, \hF0)], 1)
        hi == MemRb(s1, s1.reg_sp)
    IN  Ret(SpAdd([hi.s EXCEPT !.reg_a = hi.v], 1), 3)

\* CPU::pop_r16
pop_r16(s, r) ==
    LET lo == MemRb(s, s.reg_sp)
        s1 == SpAdd(lo.s, 1)
        hi == MemRb(s1, s1.reg_sp)
    IN  Ret(SetR16(SpAdd(hi.s, 1), r, Pair(hi.v, lo.v)), 3)

\* self.reg_sp -= 1; mmu.wb(self.reg_sp, hi); self.reg_sp -= 1; mmu.wb(self.reg_sp, lo);
Push2(s, hi, lo) ==
    LET s1 == SpSub(s, 1)
        s2 == MemWb(s1, s1.reg_sp, hi)
        s3 == SpSub(s2, 1)
    IN  MemWb(s3, s3.reg_sp, lo)

\* CPU::push_af
push_af(s) == Ret(Push2(s, s.reg_a, s.reg_f), 4)

\* CPU::push_r16
push_r16(s, r) == Ret(Push2(s, GetR16(s, r) \div 256, GetR16(s, r) % 256), 4)

(***************************************************************************)
(* Miscellaneous operations                                                *)
(***************************************************************************)
\* CPU::ccf
ccf(s) ==
    LET s1 == [s EXCEPT !.reg_f = BitXor(@, FLAG_CARRY)]
    IN  Ret(set_flags(s1, "LEAVE", FromBool(BitAnd(s1.reg_f, FLAG_CARRY) # 0), "OFF", "OFF"), 1)

\* CPU::cpl
cpl(s) == Ret(set_flags([s EXCEPT !.reg_a = Not8(@)], "LEAVE", "LEAVE", "ON", "ON"), 1)

\* CPU::daa
daa(s) ==
    LET carry == BitAnd(s.reg_f, FLAG_CARRY) > 0
        half_carry == BitAnd(s.reg_f, FLAG_HALF_CARRY) > 0
        add1 == IF carry \/ s.reg_a > \h99 THEN Wrap8(s.reg_a + \h60) ELSE s.reg_a
        add2 == IF half_carry \/ (add1 % 16) > \h09 THEN Wrap8(add1 + \h6) ELSE add1
        sub1 == IF carry THEN Wrap8(s.reg_a - \h60) ELSE s.reg_a
        sub2 == IF half_carry THEN Wrap8(sub1 - \h6) ELSE sub1
        after_add == BitAnd(s.reg_f, FLAG_SUB) = 0
        a == IF after_add THEN add2 ELSE sub2
        new_carry == carry \/ (after_add /\ s.reg_a > \h99)
    IN  Ret(set_flags([s EXCEPT !.reg_a = a], FromZero(a), FromBool(new_carry), "OFF", "LEAVE"), 1)

\* CPU::di
di(s) == Ret([s EXCEPT !.ime = FALSE], 1)

\* CPU::ei
ei(s) == Ret([s EXCEPT !.ime = TRUE], 1)

\* CPU::halt
halt(s) == Ret([s EXCEPT !.halt = TRUE], 1)

\* CPU::nop
nop(s) == Ret(s, 1)

\* CPU::scf
scf(s) == Ret(set_flags(s, "LEAVE", "ON", "OFF", "OFF"), 1)

\* CPU::stop
stop(s) == Ret([s EXCEPT !.stop = TRUE], 0)

\* CPU::xx: the message it prints evaluates self.reg_pc - 1
xx(s) == Ret([s EXCEPT !.stop = TRUE, !.ok = Chk16(s, s.reg_pc - 1).ok], 0)

(***************************************************************************)
(* Call mappings.  OpTable[opc + 1] and CbTable[opc + 1] are the arms of   *)
(* the two match statements: the function called and its arguments.        *)
(***************************************************************************)
\* the arms of the match in CPU::map_and_execute, 0x00 .. 0xFF
OpTable ==
    <<
    <<"nop">>, <<"ld_r16_n16", "BC">>, <<"ld_mr16_a", "BC">>, <<"inc_r16", "BC">>,
    <<"inc_r8", "B">>, <<"dec_r8", "B">>, <<"ld_r8_n8", "B">>, <<"rlca">>,
    <<"ld_mn16_sp">>, <<"add_hl_r16", "BC">>, <<"ld_a_mr16", "BC">>, <<"dec_r16", "BC">>,
    <<"inc_r8", "C">>, <<"dec_r8", "C">>, <<"ld_r8_n8", "C">>, <<"rrca">>,
    <<"stop">>, <<"ld_r16_n16", "DE">>, <<"ld_mr16_a", "DE">>, <<"inc_r16", "DE">>,
    <<"inc_r8", "D">>, <<"dec_r8", "D">>, <<"ld_r8_n8", "D">>, <<"rla">>,
    <<"jr_n16">>, <<"add_hl_r16", "DE">>, <<"ld_a_mr16", "DE">>, <<"dec_r16", "DE">>,
    <<"inc_r8", "E">>, <<"dec_r8", "E">>, <<"ld_r8_n8", "E">>, <<"rra">>,
    <<"jr_cc_n16", "NZ">>, <<"ld_r16_n16", "HL">>, <<"ld_hli_a">>, <<"inc_r16", "HL">>,
    <<"inc_r8", "H">>, <<"dec_r8", "H">>, <<"ld_r8_n8", "H">>, <<"daa">>,
    <<"jr_cc_n16", "Z">>, <<"add_hl_r16", "HL">>, <<"ld_a_hli">>, <<"dec_r16", "HL">>,
    <<"inc_r8", "L">>, <<"dec_r8", "L">>, <<"ld_r8_n8", "L">>, <<"cpl">>,
    <<"jr_cc_n16", "NC">>, <<"ld_sp_n16">>, <<"ld_hld_a">>, <<"inc_sp">>,
    <<"inc_mhl">>, <<"dec_mhl">>, <<"ld_mhl_n8">>, <<"scf">>,
    <<"jr_cc_n16", "C">>, <<"add_hl_sp">>, <<"ld_a_hld">>, <<"dec_sp">>,
    <<"inc_r8", "A">>, <<"dec_r8", "A">>, <<"ld_r8_n8", "A">>, <<"ccf">>,
    <<"ld_r8_r8", "B", "B">>, <<"ld_r8_r8", "B", "C">>, <<"ld_r8_r8", "B", "D">>, <<"ld_r8_r8", "B", "E">>,
    <<"ld_r8_r8", "B", "H">>, <<"ld_r8_r8", "B", "L">>, <<"ld_r8_mhl", "B">>, <<"ld_r8_r8", "B", "A">>,
    <<"ld_r8_r8", "C", "B">>, <<"ld_r8_r8", "C", "C">>, <<"ld_r8_r8", "C", "D">>, <<"ld_r8_r8", "C", "E">>,
    <<"ld_r8_r8", "C", "H">>, <<"ld_r8_r8", "C", "L">>, <<"ld_r8_mhl", "C">>, <<"ld_r8_r8", "C", "A">>,
    <<"ld_r8_r8", "D", "B">>, <<"ld_r8_r8", "D", "C">>, <<"ld_r8_r8", "D", "D">>, <<"ld_r8_r8", "D", "E">>,
    <<"ld_r8_r8", "D", "H">>, <<"ld_r8_r8", "D", "L">>, <<"ld_r8_mhl", "D">>, <<"ld_r8_r8", "D", "A">>,
    <<"ld_r8_r8", "E", "B">>, <<"ld_r8_r8", "E", "C">>, <<"ld_r8_r8", "E", "D">>, <<"ld_r8_r8", "E", "E">>,
    <<"ld_r8_r8", "E", "H">>, <<"ld_r8_r8", "E", "L">>, <<"ld_r8_mhl", "E">>, <<"ld_r8_r8", "E", "A">>,
    <<"ld_r8_r8", "H", "B">>, <<"ld_r8_r8", "H", "C">>, <<"ld_r8_r8", "H", "D">>, <<"ld_r8_r8", "H", "E">>,
    <<"ld_r8_r8", "H", "H">>, <<"ld_r8_r8", "H", "L">>, <<"ld_r8_mhl", "H">>, <<"ld_r8_r8", "H", "A">>,
    <<"ld_r8_r8", "L", "B">>, <<"ld_r8_r8", "L", "C">>, <<"ld_r8_r8", "L", "D">>, <<"ld_r8_r8", "L", "E">>,
    <<"ld_r8_r8", "L", "H">>, <<"ld_r8_r8", "L", "L">>, <<"ld_r8_mhl", "L">>, <<"ld_r8_r8", "L", "A">>,
    <<"ld_mhl_r8", "B">>, <<"ld_mhl_r8", "C">>, <<"ld_mhl_r8", "D">>, <<"ld_mhl_r8", "E">>,
    <<"ld_mhl_r8", "H">>, <<"ld_mhl_r8", "L">>, <<"halt">>, <<"ld_mhl_r8", "A">>,
    <<"ld_r8_r8", "A", "B">>, <<"ld_r8_r8", "A", "C">>, <<"ld_r8_r8", "A", "D">>, <<"ld_r8_r8", "A", "E">>,
    <<"ld_r8_r8", "A", "H">>, <<"ld_r8_r8", "A", "L">>, <<"ld_r8_mhl", "A">>, <<"ld_r8_r8", "A", "A">>,
    <<"add_a_r8", "B">>, <<"add_a_r8", "C">>, <<"add_a_r8", "D">>, <<"add_a_r8", "E">>,
    <<"add_a_r8", "H">>, <<"add_a_r8", "L">>, <<"add_a_mhl">>, <<"add_a_r8", "A">>,
    <<"adc_a_r8", "B">>, <<"adc_a_r8", "C">>, <<"adc_a_r8", "D">>, <<"adc_a_r8", "E">>,
    <<"adc_a_r8", "H">>, <<"adc_a_r8", "L">>, <<"adc_a_mhl">>, <<"adc_a_r8", "A">>,
    <<"sub_a_r8", "B">>, <<"sub_a_r8", "C">>, <<"sub_a_r8", "D">>, <<"sub_a_r8", "E">>,
    <<"sub_a_r8", "H">>, <<"sub_a_r8", "L">>, <<"sub_a_mhl">>, <<"sub_a_r8", "A">>,
    <<"sbc_a_r8", "B">>, <<"sbc_a_r8", "C">>, <<"sbc_a_r8", "D">>, <<"sbc_a_r8", "E">>,
    <<"sbc_a_r8", "H">>, <<"sbc_a_r8", "L">>, <<"sbc_a_mhl">>, <<"sbc_a_r8", "A">>,
    <<"and_a_r8", "B">>, <<"and_a_r8", "C">>, <<"and_a_r8", "D">>, <<"and_a_r8", "E">>,
    <<"and_a_r8", "H">>, <<"and_a_r8", "L">>, <<"and_a_mhl">>, <<"and_a_r8", "A">>,
    <<"xor_a_r8", "B">>, <<"xor_a_r8", "C">>, <<"xor_a_r8", "D">>, <<"xor_a_r8", "E">>,
    <<"xor_a_r8", "H">>, <<"xor_a_r8", "L">>, <<"xor_a_mhl">>, <<"xor_a_r8", "A">>,
    <<"or_a_r8", "B">>, <<"or_a_r8", "C">>, <<"or_a_r8", "D">>, <<"or_a_r8", "E">>,
    <<"or_a_r8", "H">>, <<"or_a_r8", "L">>, <<"or_a_mhl">>, <<"or_a_r8", "A">>,
    <<"cp_a_r8", "B">>, <<"cp_a_r8", "C">>, <<"cp_a_r8", "D">>, <<"cp_a_r8", "E">>,
    <<"cp_a_r8", "H">>, <<"cp_a_r8", "L">>, <<"cp_a_mhl">>, <<"cp_a_r8", "A">>,
    <<"ret_cc", "NZ">>, <<"pop_r16", "BC">>, <<"jp_cc_n16", "NZ">>, <<"jp_n16">>,
    <<"call_cc_n16", "NZ">>, <<"push_r16", "BC">>, <<"add_a_n8">>, <<"rst", "RST00">>,
    <<"ret_cc", "Z">>, <<"ret">>, <<"jp_cc_n16", "Z">>, <<"map_cb_and_execute">>,
    <<"call_cc_n16", "Z">>, <<"call_n16">>, <<"adc_a_n8">>, <<"rst", "RST08">>,
    <<"ret_cc", "NC">>, <<"pop_r16", "DE">>, <<"jp_cc_n16", "NC">>, <<"xx">>,
    <<"call_cc_n16", "NC">>, <<"push_r16", "DE">>, <<"sub_a_n8">>, <<"rst", "RST10">>,
    <<"ret_cc", "C">>, <<"reti">>, <<"jp_cc_n16", "C">>, <<"xx">>,
    <<"call_cc_n16", "C">>, <<"xx">>, <<"sbc_a_n8">>, <<"rst", "RST18">>,
    <<"ldh_mn16_a">>, <<"pop_r16", "HL">>, <<"ldh_mc_a">>, <<"xx">>,
    <<"xx">>, <<"push_r16", "HL">>, <<"and_a_n8">>, <<"rst", "RST20">>,
    <<"add_sp_e8">>, <<"jp_mhl">>, <<"ld_mn16_a">>, <<"xx">>,
    <<"xx">>, <<"xx">>, <<"xor_a_n8">>, <<"rst", "RST28">>,
    <<"ldh_a_mn16">>, <<"pop_af">>, <<"ldh_a_mc">>, <<"di">>,
    <<"xx">>, <<"push_af">>, <<"or_a_n8">>, <<"rst", "RST30">>,
    <<"ld_hl_spe8">>, <<"ld_sp_hl">>, <<"ld_a_mn16">>, <<"ei">>,
    <<"xx">>, <<"xx">>, <<"cp_a_n8">>, <<"rst", "RST38">>
    >>

\* the arms of the match in CPU::map_cb_and_execute, 0x00 .. 0xFF
CbTable ==
    <<
    <<"rlc_r8", "B">>, <<"rlc_r8", "C">>, <<"rlc_r8", "D">>, <<"rlc_r8", "E">>,
    <<"rlc_r8", "H">>, <<"rlc_r8", "L">>, <<"rlc_mhl">>, <<"rlc_r8", "A">>,
    <<"rrc_r8", "B">>, <<"rrc_r8", "C">>, <<"rrc_r8", "D">>, <<"rrc_r8", "E">>,
    <<"rrc_r8", "H">>, <<"rrc_r8", "L">>, <<"rrc_mhl">>, <<"rrc_r8", "A">>,
    <<"rl_r8", "B">>, <<"rl_r8", "C">>, <<"rl_r8", "D">>, <<"rl_r8", "E">>,
    <<"rl_r8", "H">>, <<"rl_r8", "L">>, <<"rl_mhl">>, <<"rl_r8", "A">>,
    <<"rr_r8", "B">>, <<"rr_r8", "C">>, <<"rr_r8", "D">>, <<"rr_r8", "E">>,
    <<"rr_r8", "H">>, <<"rr_r8", "L">>, <<"rr_mhl">>, <<"rr_r8", "A">>,
    <<"sla_r8", "B">>, <<"sla_r8", "C">>, <<"sla_r8", "D">>, <<"sla_r8", "E">>,
    <<"sla_r8", "H">>, <<"sla_r8", "L">>, <<"sla_mhl">>, <<"sla_r8", "A">>,
    <<"sra_r8", "B">>, <<"sra_r8", "C">>, <<"sra_r8", "D">>, <<"sra_r8", "E">>,
    <<"sra_r8", "H">>, <<"sra_r8", "L">>, <<"sra_mhl">>, <<"sra_r8", "A">>,
    <<"swap_r8", "B">>, <<"swap_r8", "C">>, <<"swap_r8", "D">>, <<"swap_r8", "E">>,
    <<"swap_r8", "H">>, <<"swap_r8", "L">>, <<"swap_mhl">>, <<"swap_r8", "A">>,
    <<"srl_r8", "B">>, <<"srl_r8", "C">>, <<"srl_r8", "D">>, <<"srl_r8", "E">>,
    <<"srl_r8", "H">>, <<"srl_r8", "L">>, <<"srl_mhl">>, <<"srl_r8", "A">>,
    <<"bit_u3_r8", 0, "B">>, <<"bit_u3_r8", 0, "C">>, <<"bit_u3_r8", 0, "D">>, <<"bit_u3_r8", 0, "E">>,
    <<"bit_u3_r8", 0, "H">>, <<"bit_u3_r8", 0, "L">>, <<"bit_u3_mhl", 0>>, <<"bit_u3_r8", 0, "A">>,
    <<"bit_u3_r8", 1, "B">>, <<"bit_u3_r8", 1, "C">>, <<"bit_u3_r8", 1, "D">>, <<"bit_u3_r8", 1, "E">>,
    <<"bit_u3_r8", 1, "H">>, <<"bit_u3_r8", 1, "L">>, <<"bit_u3_mhl", 1>>, <<"bit_u3_r8", 1, "A">>,
    <<"bit_u3_r8", 2, "B">>, <<"bit_u3_r8", 2, "C">>, <<"bit_u3_r8", 2, "D">>, <<"bit_u3_r8", 2, "E">>,
    <<"bit_u3_r8", 2, "H">>, <<"bit_u3_r8", 2, "L">>, <<"bit_u3_mhl", 2>>, <<"bit_u3_r8", 2, "A">>,
    <<"bit_u3_r8", 3, "B">>, <<"bit_u3_r8", 3, "C">>, <<"bit_u3_r8", 3, "D">>, <<"bit_u3_r8", 3, "E">>,
    <<"bit_u3_r8", 3, "H">>, <<"bit_u3_r8", 3, "L">>, <<"bit_u3_mhl", 3>>, <<"bit_u3_r8", 3, "A">>,
    <<"bit_u3_r8", 4, "B">>, <<"bit_u3_r8", 4, "C">>, <<"bit_u3_r8", 4, "D">>, <<"bit_u3_r8", 4, "E">>,
    <<"bit_u3_r8", 4, "H">>, <<"bit_u3_r8", 4, "L">>, <<"bit_u3_mhl", 4>>, <<"bit_u3_r8", 4, "A">>,
    <<"bit_u3_r8", 5, "B">>, <<"bit_u3_r8", 5, "C">>, <<"bit_u3_r8", 5, "D">>, <<"bit_u3_r8", 5, "E">>,
    <<"bit_u3_r8", 5, "H">>, <<"bit_u3_r8", 5, "L">>, <<"bit_u3_mhl", 5>>, <<"bit_u3_r8", 5, "A">>,
    <<"bit_u3_r8", 6, "B">>, <<"bit_u3_r8", 6, "C">>, <<"bit_u3_r8", 6, "D">>, <<"bit_u3_r8", 6, "E">>,
    <<"bit_u3_r8", 6, "H">>, <<"bit_u3_r8", 6, "L">>, <<"bit_u3_mhl", 6>>, <<"bit_u3_r8", 6, "A">>,
    <<"bit_u3_r8", 7, "B">>, <<"bit_u3_r8", 7, "C">>, <<"bit_u3_r8", 7, "D">>, <<"bit_u3_r8", 7, "E">>,
    <<"bit_u3_r8", 7, "H">>, <<"bit_u3_r8", 7, "L">>, <<"bit_u3_mhl", 7>>, <<"bit_u3_r8", 7, "A">>,
    <<"res_u3_r8", 0, "B">>, <<"res_u3_r8", 0, "C">>, <<"res_u3_r8", 0, "D">>, <<"res_u3_r8", 0, "E">>,
    <<"res_u3_r8", 0, "H">>, <<"res_u3_r8", 0, "L">>, <<"res_u3_mhl", 0>>, <<"res_u3_r8", 0, "A">>,
    <<"res_u3_r8", 1, "B">>, <<"res_u3_r8", 1, "C">>, <<"res_u3_r8", 1, "D">>, <<"res_u3_r8", 1, "E">>,
    <<"res_u3_r8", 1, "H">>, <<"res_u3_r8", 1, "L">>, <<"res_u3_mhl", 1>>, <<"res_u3_r8", 1, "A">>,
    <<"res_u3_r8", 2, "B">>, <<"res_u3_r8", 2, "C">>, <<"res_u3_r8", 2, "D">>, <<"res_u3_r8", 2, "E">>,
    <<"res_u3_r8", 2, "H">>, <<"res_u3_r8", 2, "L">>, <<"res_u3_mhl", 2>>, <<"res_u3_r8", 2, "A">>,
    <<"res_u3_r8", 3, "B">>, <<"res_u3_r8", 3, "C">>, <<"res_u3_r8", 3, "D">>, <<"res_u3_r8", 3, "E">>,
    <<"res_u3_r8", 3, "H">>, <<"res_u3_r8", 3, "L">>, <<"res_u3_mhl", 3>>, <<"res_u3_r8", 3, "A">>,
    <<"res_u3_r8", 4, "B">>, <<"res_u3_r8", 4, "C">>, <<"res_u3_r8", 4, "D">>, <<"res_u3_r8", 4, "E">>,
    <<"res_u3_r8", 4, "H">>, <<"res_u3_r8", 4, "L">>, <<"res_u3_mhl", 4>>, <<"res_u3_r8", 4, "A">>,
    <<"res_u3_r8", 5, "B">>, <<"res_u3_r8", 5, "C">>, <<"res_u3_r8", 5, "D">>, <<"res_u3_r8", 5, "E">>,
    <<"res_u3_r8", 5, "H">>, <<"res_u3_r8", 5, "L">>, <<"res_u3_mhl", 5>>, <<"res_u3_r8", 5, "A">>,
    <<"res_u3_r8", 6, "B">>, <<"res_u3_r8", 6, "C">>, <<"res_u3_r8", 6, "D">>, <<"res_u3_r8", 6, "E">>,
    <<"res_u3_r8", 6, "H">>, <<"res_u3_r8", 6, "L">>, <<"res_u3_mhl", 6>>, <<"res_u3_r8", 6, "A">>,
    <<"res_u3_r8", 7, "B">>, <<"res_u3_r8", 7, "C">>, <<"res_u3_r8", 7, "D">>, <<"res_u3_r8", 7, "E">>,
    <<"res_u3_r8", 7, "H">>, <<"res_u3_r8", 7, "L">>, <<"res_u3_mhl", 7>>, <<"res_u3_r8", 7, "A">>,
    <<"set_u3_r8", 0, "B">>, <<"set_u3_r8", 0, "C">>, <<"set_u3_r8", 0, "D">>, <<"set_u3_r8", 0, "E">>,
    <<"set_u3_r8", 0, "H">>, <<"set_u3_r8", 0, "L">>, <<"set_u3_mhl", 0>>, <<"set_u3_r8", 0, "A">>,
    <<"set_u3_r8", 1, "B">>, <<"set_u3_r8", 1, "C">>, <<"set_u3_r8", 1, "D">>, <<"set_u3_r8", 1, "E">>,
    <<"set_u3_r8", 1, "H">>, <<"set_u3_r8", 1, "L">>, <<"set_u3_mhl", 1>>, <<"set_u3_r8", 1, "A">>,
    <<"set_u3_r8", 2, "B">>, <<"set_u3_r8", 2, "C">>, <<"set_u3_r8", 2, "D">>, <<"set_u3_r8", 2, "E">>,
    <<"set_u3_r8", 2, "H">>, <<"set_u3_r8", 2, "L">>, <<"set_u3_mhl", 2>>, <<"set_u3_r8", 2, "A">>,
    <<"set_u3_r8", 3, "B">>, <<"set_u3_r8", 3, "C">>, <<"set_u3_r8", 3, "D">>, <<"set_u3_r8", 3, "E">>,
    <<"set_u3_r8", 3, "H">>, <<"set_u3_r8", 3, "L">>, <<"set_u3_mhl", 3>>, <<"set_u3_r8", 3, "A">>,
    <<"set_u3_r8", 4, "B">>, <<"set_u3_r8", 4, "C">>, <<"set_u3_r8", 4, "D">>, <<"set_u3_r8", 4, "E">>,
    <<"set_u3_r8", 4, "H">>, <<"set_u3_r8", 4, "L">>, <<"set_u3_mhl", 4>>, <<"set_u3_r8", 4, "A">>,
    <<"set_u3_r8", 5, "B">>, <<"set_u3_r8", 5, "C">>, <<"set_u3_r8", 5, "D">>, <<"set_u3_r8", 5, "E">>,
    <<"set_u3_r8", 5, "H">>, <<"set_u3_r8", 5, "L">>, <<"set_u3_mhl", 5>>, <<"set_u3_r8", 5, "A">>,
    <<"set_u3_r8", 6, "B">>, <<"set_u3_r8", 6, "C">>, <<"set_u3_r8", 6, "D">>, <<"set_u3_r8", 6, "E">>,
    <<"set_u3_r8", 6, "H">>, <<"set_u3_r8", 6, "L">>, <<"set_u3_mhl", 6>>, <<"set_u3_r8", 6, "A">>,
    <<"set_u3_r8", 7, "B">>, <<"set_u3_r8", 7, "C">>, <<"set_u3_r8", 7, "D">>, <<"set_u3_r8", 7, "E">>,
    <<"set_u3_r8", 7, "H">>, <<"set_u3_r8", 7, "L">>, <<"set_u3_mhl", 7>>, <<"set_u3_r8", 7, "A">>
    >>

\* the match on RST in CPU::rst
RstVec(name) ==
    CASE name = "RST00" -> \h00 [] name = "RST08" -> \h08 [] name = "RST10" -> \h10
      [] name = "RST18" -> \h18 [] name = "RST20" -> \h20 [] name = "RST28" -> \h28
      [] name = "RST30" -> \h30 [] name = "RST38" -> \h38 [] name = "RST40" -> \h40
      [] name = "RST48" -> \h48 [] name = "RST50" -> \h50 [] name = "RST58" -> \h58
      [] name = "RST60" -> \h60

\* CPU::map_cb_and_execute
map_cb_and_execute(s) ==
    LET Run(t, e) ==
            LET f == e[1]
            IN  CASE f = "rlc_r8" -> rlc(t, e[2])       [] f = "rlc_mhl" -> rlc(t, "mhl")
                  [] f = "rrc_r8" -> rrc(t, e[2])       [] f = "rrc_mhl" -> rrc(t, "mhl")
                  [] f = "rl_r8" -> rl(t, e[2])         [] f = "rl_mhl" -> rl(t, "mhl")
                  [] f = "rr_r8" -> rr(t, e[2])         [] f = "rr_mhl" -> rr(t, "mhl")
                  [] f = "sla_r8" -> sla(t, e[2])       [] f = "sla_mhl" -> sla(t, "mhl")
                  [] f = "sra_r8" -> sra(t, e[2])       [] f = "sra_mhl" -> sra(t, "mhl")
                  [] f = "swap_r8" -> swap(t, e[2])     [] f = "swap_mhl" -> swap(t, "mhl")
                  [] f = "srl_r8" -> srl(t, e[2])       [] f = "srl_mhl" -> srl(t, "mhl")
                  [] f = "bit_u3_r8" -> bit_u3(t, e[2], e[3])
                  [] f = "bit_u3_mhl" -> bit_u3(t, e[2], "mhl")
                  [] f = "res_u3_r8" -> res_u3(t, e[2], e[3])
                  [] f = "res_u3_mhl" -> res_u3(t, e[2], "mhl")
                  [] f = "set_u3_r8" -> set_u3(t, e[2], e[3])
                  [] f = "set_u3_mhl" -> set_u3(t, e[2], "mhl")
        Decode(o) == Run(o.s, CbTable[o.v + 1])
    IN  Decode(Fetch8(s))

\* CPU::map_and_execute
map_and_execute(s, opc) ==
    LET Run(e) ==
            LET f == e[1]
            IN  CASE f = "nop" -> nop(s)
                  [] f = "ld_r16_n16" -> ld_r16_n16(s, e[2])
                  [] f = "ld_mr16_a" -> ld_mr16_a(s, e[2])
                  [] f = "ld_a_mr16" -> ld_a_mr16(s, e[2])
                  [] f = "inc_r16" -> inc_r16(s, e[2])
                  [] f = "dec_r16" -> dec_r16(s, e[2])
                  [] f = "inc_sp" -> inc_sp(s)
                  [] f = "dec_sp" -> dec_sp(s)
                  [] f = "inc_r8" -> inc8(s, e[2])
                  [] f = "inc_mhl" -> inc8(s, "mhl")
                  [] f = "dec_r8" -> dec8(s, e[2])
                  [] f = "dec_mhl" -> dec8(s, "mhl")
                  [] f = "ld_r8_n8" -> ld_r8_n8(s, e[2])
                  [] f = "ld_r8_r8" -> ld_r8_r8(s, e[2], e[3])
                  [] f = "ld_r8_mhl" -> ld_r8_mhl(s, e[2])
                  [] f = "ld_mhl_r8" -> ld_mhl_r8(s, e[2])
                  [] f = "ld_mhl_n8" -> ld_mhl_n8(s)
                  [] f = "ld_mn16_sp" -> ld_mn16_sp(s)
                  [] f = "ld_sp_n16" -> ld_sp_n16(s)
                  [] f = "ld_sp_hl" -> ld_sp_hl(s)
                  [] f = "ld_hl_spe8" -> ld_hl_spe8(s)
                  [] f = "ld_hli_a" -> ld_hli_a(s)
                  [] f = "ld_hld_a" -> ld_hld_a(s)
                  [] f = "ld_a_hli" -> ld_a_hli(s)
                  [] f = "ld_a_hld" -> ld_a_hld(s)
                  [] f = "ld_a_mn16" -> ld_a_mn16(s)
                  [] f = "ld_mn16_a" -> ld_mn16_a(s)
                  [] f = "ldh_mn16_a" -> ldh_mn16_a(s)
                  [] f = "ldh_mc_a" -> ldh_mc_a(s)
                  [] f = "ldh_a_mn16" -> ldh_a_mn16(s)
                  [] f = "ldh_a_mc" -> ldh_a_mc(s)
                  [] f = "add_hl_r16" -> add_hl(s, e[2])
                  [] f = "add_hl_sp" -> add_hl(s, "SP")
                  [] f = "add_sp_e8" -> add_sp_e8(s)
                  [] f = "adc_a_r8" -> adc_a(s, e[2])
                  [] f = "adc_a_mhl" -> adc_a(s, "mhl")
                  [] f = "adc_a_n8" -> adc_a(s, "n8")
                  [] f = "add_a_r8" -> add_a(s, e[2])
                  [] f = "add_a_mhl" -> add_a(s, "mhl")
                  [] f = "add_a_n8" -> add_a(s, "n8")
                  [] f = "and_a_r8" -> and_a(s, e[2])
                  [] f = "and_a_mhl" -> and_a(s, "mhl")
                  [] f = "and_a_n8" -> and_a(s, "n8")
                  [] f = "cp_a_r8" -> cp_a(s, e[2])
                  [] f = "cp_a_mhl" -> cp_a(s, "mhl")
                  [] f = "cp_a_n8" -> cp_a(s, "n8")
                  [] f = "or_a_r8" -> or_a(s, e[2])
                  [] f = "or_a_mhl" -> or_a(s, "mhl")
                  [] f = "or_a_n8" -> or_a(s, "n8")
                  [] f = "sbc_a_r8" -> sbc_a(s, e[2])
                  [] f = "sbc_a_mhl" -> sbc_a(s, "mhl")
                  [] f = "sbc_a_n8" -> sbc_a(s, "n8")
                  [] f = "sub_a_r8" -> sub_a(s, e[2])
                  [] f = "sub_a_mhl" -> sub_a(s, "mhl")
                  [] f = "sub_a_n8" -> sub_a(s, "n8")
                  [] f = "xor_a_r8" -> xor_a(s, e[2])
                  [] f = "xor_a_mhl" -> xor_a(s, "mhl")
                  [] f = "xor_a_n8" -> xor_a(s, "n8")
                  [] f = "rla" -> rla(s)
                  [] f = "rlca" -> rlca(s)
                  [] f = "rra" -> rra(s)
                  [] f = "rrca" -> rrca(s)
                  [] f = "call_n16" -> call_n16(s)
                  [] f = "call_cc_n16" -> call_cc_n16(s, e[2])
                  [] f = "jp_n16" -> jp_n16(s)
                  [] f = "jp_cc_n16" -> jp_cc_n16(s, e[2])
                  [] f = "jp_mhl" -> jp_mhl(s)
                  [] f = "jr_n16" -> jr_n16(s)
                  [] f = "jr_cc_n16" -> jr_cc_n16(s, e[2])
                  [] f = "ret" -> ret(s)
                  [] f = "ret_cc" -> ret_cc(s, e[2])
                  [] f = "reti" -> reti(s)
                  [] f = "rst" -> rst(s, RstVec(e[2]))
                  [] f = "pop_af" -> pop_af(s)
                  [] f = "pop_r16" -> pop_r16(s, e[2])
                  [] f = "push_af" -> push_af(s)
                  [] f = "push_r16" -> push_r16(s, e[2])
                  [] f = "ccf" -> ccf(s)
                  [] f = "cpl" -> cpl(s)
                  [] f = "daa" -> daa(s)
                  [] f = "di" -> di(s)
                  [] f = "ei" -> ei(s)
                  [] f = "halt" -> halt(s)
                  [] f = "scf" -> scf(s)
                  [] f = "stop" -> stop(s)
                  [] f = "xx" -> xx(s)
                  [] f = "map_cb_and_execute" -> map_cb_and_execute(s)
    IN  Run(OpTable[opc + 1])

(***************************************************************************)
(* CPU::exec                                                               *)
(***************************************************************************)
\* the arguments of the trace line printed when DEBUG_GB_DOCTOR is set:
\* mmu.rb(pc), mmu.rb(pc + 1), mmu.rb(pc + 2), mmu.rb(pc + 3)
RbAhead(s, n) ==
    LET a == Chk16(s, s.reg_pc + n)
    IN  MemRb([s EXCEPT !.ok = a.ok], a.v).s

DoctorTrace(s) ==
    IF debug_gb_doctor
    THEN RbAhead(RbAhead(RbAhead(MemRb(s, s.reg_pc).s, 1), 2), 3)
    ELSE s

\* a t-cycle count of twice the machine cycles
CyclesT_x2(cycles) == cycles * 2

\* let mut cycles_t = cycles * 4;
CyclesT(cycles) == cycles * 4

\* one arm of the interrupt chain: reset the flag, clear ime, execute the
\* RST; then cycles += 5 and cycles_t += 20
Service(s, i_f, flag, vec) ==
    LET Reset(w) == rst([w EXCEPT !.ime = FALSE], RstVec(vec)).s
    IN  [s |-> Reset(MemWb(s, REG_INTERRUPTS, BitAnd(i_f, Not8(flag)))),
         irq |-> RstVec(vec), extra |-> 5, extra_t |-> 20]

\* the interrupt check at the end of exec: the machine after it, the vector
\* dispatched to (0: none) and the cycles added to cycles and to cycles_t
\* CPU::exec, lines 221 to 247: what follows the reads of IE and IF
ServicePending(t, i_e, i_f) ==
    LET pend == BitAnd(i_e, i_f)
    IN  IF pend > 0
        THEN CASE BitAnd(pend, FLAG_INT_VBLANK) > 0 ->
                      Service(t, i_f, FLAG_INT_VBLANK, "RST40")
               [] BitAnd(pend, FLAG_INT_LCD_STAT) > 0 ->
                      Service(t, i_f, FLAG_INT_LCD_STAT, "RST48")
               [] BitAnd(pend, FLAG_INT_TIMER) > 0 ->
                      Service(t, i_f, FLAG_INT_TIMER, "RST50")
               [] BitAnd(pend, FLAG_INT_SERIAL) > 0 ->
                      Service(t, i_f, FLAG_INT_SERIAL, "RST58")
               [] BitAnd(pend, FLAG_INT_JOYP) > 0 ->
                      Service(t, i_f, FLAG_INT_JOYP, "RST60")
               [] OTHER -> [s |-> t, irq |-> 0, extra |-> 5, extra_t |-> 20]
        ELSE [s |-> t, irq |-> 0, extra |-> 0, extra_t |-> 0]

Interrupts(s) ==
    LET ReadIf(r_e, r_f) == ServicePending(r_f.s, r_e.v, r_f.v)
        ReadIe(r_e) == ReadIf(r_e, MemRb(r_e.s, REG_INTERRUPTS))
    IN  IF s.ime
        THEN ReadIe(MemRb(s, \hFFFF))
        ELSE [s |-> s, irq |-> 0, extra |-> 0, extra_t |-> 0]

\* CPU::exec: the machine after the call, the pair it returns, the opcode it
\* fetched and the vector it dispatched to.  clock_m and clock_t are u32
\* wrapping sums; in MaxSteps calls they stay far below 2^32, so the sums
\* are written without the reduction.
exec(s) ==
    LET Clocks(opc, r, i) ==
            LET cycles == r.cyc + i.extra
                cycles_t == CyclesT(r.cyc) + i.extra_t
                clock_m == i.s.clock_m + cycles
            IN  [s |-> [i.s EXCEPT !.clock_m = clock_m, !.clock_t = clock_m + cycles_t],
                 m |-> cycles, t |-> cycles_t, opc |-> opc.v, irq |-> i.irq,
                 int |-> [ime |-> r.s.ime,
                          pend |-> BitAnd(rb(r.s.mmu, \hFFFF).v, rb(r.s.mmu, REG_INTERRUPTS).v),
                          own |-> r.cyc,
                          quiet |-> /\ i.s.reg_pc = r.s.reg_pc /\ i.s.reg_sp = r.s.reg_sp
                                    /\ i.s.ime = r.s.ime
                                    /\ rb(i.s.mmu, REG_INTERRUPTS).v
                                           = rb(r.s.mmu, REG_INTERRUPTS).v]]
        Executed(opc, r) == Clocks(opc, r, Interrupts(r.s))
        Fetched(opc) ==
            Executed(opc, map_and_execute([DoctorTrace(opc.s) EXCEPT !.reg_pc = Wrap16(@ + 1)],
                                          opc.v))
        Start(s0) == Fetched(MemRb(s0, s0.reg_pc))
    IN  Start(IF s.mmu.in_bios /\ s.reg_pc = \h0100
              THEN [s EXCEPT !.mmu.in_bios = FALSE] ELSE s)

(***************************************************************************)
(* A caller of CPU::exec making the call again and again on the same CPU   *)
(* and MMU (as the loop of start_game_boy does, gameboy.rs line 51), at    *)
(* most MaxSteps times.                                                    *)
(***************************************************************************)
ExecCall ==
    /\ ~panicked
    /\ nops < MaxSteps
    /\ \E r \in {exec(Mach(cpu, mmu))} :
         LET ok == r.s.ok
         IN
           /\ cpu' = IF ok THEN CpuOf(r.s) ELSE cpu
           /\ mmu' = IF ok THEN r.s.mmu ELSE mmu
           /\ panicked' = ~ok
           /\ last_op' = [op |-> "exec", addr |-> cpu.reg_pc, val |-> r.opc,
                          ret |-> IF ok THEN r.m ELSE 0, t |-> IF ok THEN r.t ELSE 0,
                          irq |-> IF ok THEN r.irq ELSE 0, ok |-> ok, pre |-> cpu,
                          int |-> r.int]
           /\ dispatched' = IF ok /\ r.irq # 0 THEN Append(dispatched, r.irq) ELSE dispatched
    /\ nops' = nops + 1
    /\ UNCHANGED <<key_reg, overflow_checks, debug_gb_doctor, written>>

Exec ==
    /\ ExecCall
    /\ UNCHANGED <<gpuVars, held, threadVars>>

(***************************************************************************)
(* GPU (src/src/gameboy/gpu.rs).  The frame buffer is not part of the      *)
(* state: the properties speak of when a frame is sent, not of its pixels. *)
(***************************************************************************)
REG_LCD_GPU_CONTROL == 65344    \* 0xFF40
REG_CURR_SCAN_LINE == 65348     \* 0xFF44

FLAG_CONT_BG_ON == 1            \* 0x01
FLAG_CONT_SPR_ON == 2           \* 0x02

Mode == {"HBlank", "VBlank", "ScOam", "ScVram"}

new_gpu == [mode |-> "HBlank", mode_clock |-> 0, line |-> 0]

\* what a GPU method returns: the GPU and the MMU after it, whether a frame
\* was handed to the sender, and whether the call returned
GpuRet(g, m, sent, ok) == [g |-> g, m |-> m, sent |-> sent, ok |-> ok]

\* GPU::renderscan: the control register is read through the MMU; the
\* background and the sprites are drawn only when their bit of it is set.
\* The drawing itself (reads of VRAM and OAM, stores to fb) is left out.
renderscan(g, m) ==
    LET Drawn(control_flags) ==
            GpuRet(g, control_flags.m, FALSE, control_flags.ok)
    IN  Drawn(rb(m, REG_LCD_GPU_CONTROL))

\* whether renderscan would enter one of its two drawing branches
RenderEnabled(m) ==
    LET control_flags == rb(m, REG_LCD_GPU_CONTROL).v
    IN  BitAnd(control_flags, FLAG_CONT_BG_ON) > 0 \/ BitAnd(control_flags, FLAG_CONT_SPR_ON) > 0

\* self.sender.send_event(self.fb.clone()): Ok while the receiving end of
\* the frame channel exists, Err once it has been dropped; step unwraps it
send_event == engine.receiver = "alive"

\* the match of GPU::step (lines 105 to 151): the mode machine
StepModes(g, m, delta_t) ==
    LET mode_clock == g.mode_clock + delta_t
        kept == GpuRet([g EXCEPT !.mode_clock = mode_clock], m, FALSE, TRUE)
    IN  CASE g.mode = "ScOam" ->
                IF mode_clock >= 80
                THEN GpuRet([g EXCEPT !.mode = "ScVram", !.mode_clock = 0], m, FALSE, TRUE)
                ELSE kept
          [] g.mode = "ScVram" ->
                IF mode_clock >= 172
                THEN renderscan([g EXCEPT !.mode = "HBlank", !.mode_clock = 0], m)
                ELSE kept
          [] g.mode = "HBlank" ->
                IF mode_clock >= 204
                THEN IF g.line + 1 = 143
                     THEN GpuRet([g EXCEPT !.mode_clock = 0, !.line = g.line + 1,
                                           !.mode = "VBlank"], m, send_event, send_event)
                     ELSE GpuRet([g EXCEPT !.mode_clock = 0, !.line = g.line + 1,
                                           !.mode = "ScOam"], m, FALSE, TRUE)
                ELSE kept
          [] OTHER ->
                IF mode_clock >= 456
                THEN IF g.line + 1 > 153
                     THEN GpuRet([g EXCEPT !.mode_clock = 0, !.mode = "ScOam", !.line = 0],
                                 m, FALSE, TRUE)
                     ELSE GpuRet([g EXCEPT !.mode_clock = 0, !.line = g.line + 1],
                                 m, FALSE, TRUE)
                ELSE kept

\* GPU::step: the mode machine, then the store of line to 0xFF44
step(g, m, delta_t) ==
    LET LineStored(r, w) == GpuRet(r.g, w.m, r.sent, r.ok /\ w.ok)
        StoreLine(r) == LineStored(r, wb(r.m, REG_CURR_SCAN_LINE, r.g.line))
    IN  StoreLine(StepModes(g, m, delta_t))

(***************************************************************************)
(* start_game_boy (src/src/gameboy.rs): the emulation thread.  Each turn   *)
(* of the inner loop calls CPU::exec, then GPU::step with the T-cycles     *)
(* exec returned, then takes them off fclk; the outer loop starts fclk at  *)
(* 70224 again.  engine.at is the statement the thread is about to run.    *)
(* engine.frames counts the frames sent, engine.since the T-cycles handed  *)
(* to step since the last frame, engine.gap the value of since when the    *)
(* last frame was sent, engine.sent whether the last step sent one and     *)
(* engine.pre the GPU before the last step (history).  engine.receiver is  *)
(* the receiving end of the frame channel, held by the window.             *)
(***************************************************************************)
NoEngine ==
    [at |-> "exec", delta_t |-> 0, fclk |-> 70224, sent |-> FALSE, frames |-> 0,
     since |-> 0, gap |-> 0, pre |-> new_gpu, receiver |-> "alive", rendered |-> <<>>]

\* the window goes away and with it the receiving end of the frame channel
ReceiverDropped ==
    /\ engine.receiver = "alive"
    /\ engine' = [engine EXCEPT !.receiver = "dropped"]
    /\ UNCHANGED <<cpu, mmu, key_reg, panicked, overflow_checks, debug_gb_doctor, last_op,
                   written, dispatched, nops, gpu, held, threadVars, screen>>

\* gameboy.rs line 51: let (_, delta_t) = cpu.exec(&mut mmu)
LoopExec ==
    /\ engine.at = "exec"
    /\ ExecCall
    /\ engine' = [engine EXCEPT !.at = IF panicked' THEN "exec" ELSE "step",
                                !.delta_t = last_op'.t]
    /\ UNCHANGED <<gpu, held, threadVars, screen>>

\* gameboy.rs lines 52 to 54: gpu.step(&mut mmu, delta_t); fclk -= delta_t
LoopStep ==
    /\ ~panicked
    /\ engine.at = "step"
    /\ \E r \in {step(gpu, mmu, engine.delta_t)} :
         LET fclk == engine.fclk - engine.delta_t
             since == engine.since + engine.delta_t
         IN
           /\ gpu' = IF r.ok THEN r.g ELSE gpu
           /\ mmu' = IF r.ok THEN r.m ELSE mmu
           /\ panicked' = ~r.ok
           /\ last_op' = [op |-> "step", addr |-> 0, val |-> engine.delta_t, ret |-> 0,
                          t |-> 0, irq |-> 0, ok |-> r.ok, pre |-> cpu]
           /\ engine' =
                IF r.ok
                THEN [at |-> "exec", delta_t |-> engine.delta_t,
                      fclk |-> IF fclk > 0 THEN fclk ELSE 70224,
                      sent |-> r.sent,
                      frames |-> engine.frames + (IF r.sent THEN 1 ELSE 0),
                      since |-> IF r.sent THEN 0 ELSE since,
                      gap |-> IF r.sent THEN since ELSE engine.gap,
                      pre |-> gpu, receiver |-> engine.receiver,
                      rendered |->
                          IF gpu.mode = "ScVram" /\ r.g.mode = "HBlank"
                          THEN Append(engine.rendered, gpu.line)
                          ELSE IF gpu.mode = "VBlank" /\ r.g.mode = "ScOam"
                               THEN <<>> ELSE engine.rendered]
                ELSE [engine EXCEPT !.sent = FALSE, !.pre = gpu]
    /\ UNCHANGED <<cpu, key_reg, overflow_checks, debug_gb_doctor, written, dispatched, nops,
                   held, threadVars, screen>>

(***************************************************************************)
(* GPU::renderscan on its own (gpu.rs lines 175 to 342), as a function of  *)
(* what it reads: the control register, the palettes, the forty sprites of *)
(* the OAM and the tile rows.  screen holds these values, the line, and    *)
(* the row of the frame buffer: column -> index into COLORS, for the       *)
(* columns written.  The scroll registers read 0 and every entry of the    *)
(* background map names one tile; all rows of a tile are alike.            *)
(***************************************************************************)
FLAG_SPR_IN_BACKGROUND == 128   \* 0x80
FLAG_SPR_Y_FLIP == 64           \* 0x40
FLAG_SPR_X_FLIP == 32           \* 0x20
FLAG_SPR_PALETTE == 16          \* 0x10

NoSprite == <<0, 0, 0, 0>>

\* the two bytes of a row of the tiles in VRAM
TileRow(tile) ==
    CASE tile = 1 -> <<\hFF, \h00>>     \* palette-key 1 in all eight pixels
      [] tile = 2 -> <<\h0F, \hFF>>     \* palette-key 3 in bits 0..3, 2 in bits 4..7
      [] tile = 3 -> <<\hF0, \h00>>     \* palette-key 1 in bits 4..7, 0 in bits 0..3
      [] OTHER -> <<\h00, \h00>>        \* palette-key 0 in all eight pixels

NoScreen ==
    [at |-> "idle", line |-> 0, control_flags |-> 0, bg_tile |-> 0,
     bgp |-> 0, obp0 |-> 0, obp1 |-> 0,
     oam |-> [i \in 0 .. 39 |-> NoSprite],
     fb |-> [c \in {} |-> 0], wrote |-> {}]

\* GPU::get_palette: the four indices into COLORS packed in the palette byte
get_palette(raw_palette) == [k \in 0 .. 3 |-> (raw_palette \div Pow2(2 * k)) % 4]

\* GPU::tilerow_n_to_color
tilerow_n_to_color(b1, b2, n) == Bit(b1, n) + 2 * Bit(b2, n)

\* the background branch: scan_line[col], the palette-key of column col, 0 when
\* the background is off
ScanLine(scr, col) ==
    IF BitAnd(scr.control_flags, FLAG_CONT_BG_ON) > 0
    THEN tilerow_n_to_color(TileRow(scr.bg_tile)[1], TileRow(scr.bg_tile)[2], 7 - (col % 8))
    ELSE 0

BgRow(scr) ==
    IF BitAnd(scr.control_flags, FLAG_CONT_BG_ON) > 0
    THEN [i \in 0 .. 159 |-> get_palette(scr.bgp)[ScanLine(scr, i)]]
    ELSE scr.fb

\* the sprite at index i of the OAM intersects the line
Intersects(scr, i) ==
    LET sp_y == scr.oam[i][1] - 16
    IN  sp_y <= scr.line /\ sp_y + 8 > scr.line

\* pixel px of sprite i is on the screen and the condition under which it is
\* plotted holds
SpriteWrites(scr, i, px) ==
    LET sprite == scr.oam[i]
        sp_x == sprite[2] - 8
        x == IF BitAnd(sprite[4], FLAG_SPR_X_FLIP) = 0 THEN 7 - px ELSE px
        palette_key == tilerow_n_to_color(TileRow(sprite[3])[1], TileRow(sprite[3])[2], x)
    IN  /\ sp_x + px >= 0 /\ sp_x + px < 160
        /\ \/ BitAnd(sprite[4], FLAG_SPR_IN_BACKGROUND) = 0 /\ palette_key # 0
           \/ BitAnd(sprite[4], FLAG_SPR_IN_BACKGROUND) > 0 /\ ScanLine(scr, sp_x + px) = 0

\* the colour plotted for pixel px of sprite i: palette[palette_key]
SpriteColor(scr, i, px) ==
    LET sprite == scr.oam[i]
        palette == IF BitAnd(sprite[4], FLAG_SPR_PALETTE) = 0
                   THEN get_palette(scr.obp0) ELSE get_palette(scr.obp1)
        x == IF BitAnd(sprite[4], FLAG_SPR_X_FLIP) = 0 THEN 7 - px ELSE px
    IN  palette[tilerow_n_to_color(TileRow(sprite[3])[1], TileRow(sprite[3])[2], x)]

\* for i in 0..40, for the eight pixels of sprite i: the loops plot one
\* pixel after the other, so a column is left with the colour of the last
\* pixel plotted there, the one of the greatest i among the pixels plotted
Sprites(scr, bg) ==
    LET ColumnAt(w) == scr.oam[w[1]][2] - 8 + w[2]
        Color(w) == SpriteColor(scr, w[1], w[2])
        Last(at) == CHOOSE w \in at : \A v \in at : v[1] <= w[1]
        Plotted(wrote) ==
            [fb |-> [col \in {ColumnAt(w) : w \in wrote} |->
                        Color(Last({w \in wrote : ColumnAt(w) = col}))] @@ bg,
             wrote |-> wrote]
    IN  Plotted({w \in {i \in 0 .. 39 : Intersects(scr, i)} \X (0 .. 7) :
                    SpriteWrites(scr, w[1], w[2])})

\* GPU::renderscan on the values it reads
RenderRow(scr) ==
    LET Over(bg) ==
            IF BitAnd(scr.control_flags, FLAG_CONT_SPR_ON) > 0
            THEN Sprites(scr, bg)
            ELSE [fb |-> bg, wrote |-> {}]
    IN  Over(BgRow(scr))

RenderScan ==
    /\ screen.at = "idle"
    /\ \E r \in {RenderRow(screen)} :
         screen' = [screen EXCEPT !.at = "drawn", !.fb = r.fb, !.wrote = r.wrote]
    /\ UNCHANGED <<cpu, mmu, key_reg, panicked, overflow_checks, debug_gb_doctor, last_op,
                   written, dispatched, nops, gpu, engine, held, threadVars>>

(***************************************************************************)
(* KeyReg shared by two threads (src/src/gameboy/keys.rs, src/src/main.rs):*)
(* the specification SpecKeys.  column and rows each sit in an RwLock of   *)
(* their own.  A call is a sequence of steps: taking a lock, a load, a     *)
(* store; the guards taken in a call are dropped when it returns.  Both    *)
(* threads may make every call; the window thread presses and releases     *)
(* every key, the other thread two keys of different rows.                 *)
(* lin.reg is the KeyReg of the sequential order in which the calls take   *)
(* effect (history): each call applies its sequential definition to it in  *)
(* the step of its store or, for get_keys, of its last load; lin.ret_ok    *)
(* records that every get_keys returned what that KeyReg gives,            *)
(* lin.overlapped that some call began while another call was under way.   *)
(***************************************************************************)
MaxCalls == 3      \* calls made on the shared KeyReg in one behaviour

Threads == {"ui", "emu"}

ThreadKeys(t) == IF t = "ui" THEN Keys ELSE {"A", "UP"}

ThreadColumns == {\h10, \h20}

Idle == [pc |-> "idle", op |-> "none", key |-> "A", val |-> 0, column |-> 0, row |-> 0]

NoThreads == [t \in Threads |-> Idle]

\* an RwLock: the thread holding the write guard, the threads holding read guards
Unlocked == [writer |-> "none", readers |-> {}]

NoLocks == [column |-> Unlocked, rows |-> Unlocked]

NoLin == [reg |-> new_key_reg, ret_ok |-> TRUE, calls |-> 0, overlapped |-> FALSE]

\* a write lock that is granted whoever holds a guard
WriteFree_always(lock) == TRUE

\* RwLock::write returns once no guard of the lock is held
WriteFree(lock) == lock.writer = "none" /\ lock.readers = {}

\* RwLock::read returns once no write guard of the lock is held
ReadFree(lock) == lock.writer = "none"

\* a guard that is never released
Drop_kept(lock, t) == lock

\* a guard going out of scope
Drop(lock, t) ==
    [writer |-> IF lock.writer = t THEN "none" ELSE lock.writer, readers |-> lock.readers \ {t}]

KeysIdle == UNCHANGED <<cpu, mmu, panicked, overflow_checks, debug_gb_doctor, last_op, written,
                        dispatched, nops, gpuVars>>

\* a thread enters one of the four methods
KeyCall(t, op, key, val) ==
    /\ threads[t].pc = "idle"
    /\ lin.calls < MaxCalls
    /\ threads' = [threads EXCEPT ![t] =
                      [Idle EXCEPT !.pc = CASE op = "set_column" -> "column_write"
                                           [] op = "get_keys" -> "column_read"
                                           [] OTHER -> "rows_write",
                                   !.op = op, !.key = key, !.val = val]]
    /\ lin' = [lin EXCEPT !.calls = @ + 1,
                          !.overlapped = @ \/ \E u \in Threads \ {t} : threads[u].pc # "idle"]
    /\ UNCHANGED <<key_reg, locks, held>>
    /\ KeysIdle

\* set_column: let mut column = self.column.write().unwrap()
ColumnWrite(t) ==
    /\ threads[t].pc = "column_write"
    /\ WriteFree(locks.column)
    /\ locks' = [locks EXCEPT !.column.writer = t]
    /\ threads' = [threads EXCEPT ![t].pc = "store_column"]
    /\ UNCHANGED <<key_reg, lin, held>>
    /\ KeysIdle

\* set_column: *column = val & 0x30, and the return
StoreColumn(t) ==
    /\ threads[t].pc = "store_column"
    /\ key_reg' = [key_reg EXCEPT !.column = BitAnd(threads[t].val, \h30)]
    /\ lin' = [lin EXCEPT !.reg = set_column(@, threads[t].val)]
    /\ locks' = [locks EXCEPT !.column = Drop(@, t)]
    /\ threads' = [threads EXCEPT ![t] = Idle]
    /\ UNCHANGED held
    /\ KeysIdle

\* key_down, key_up: let mut rows = self.rows.write().unwrap()
RowsWrite(t) ==
    /\ threads[t].pc = "rows_write"
    /\ WriteFree(locks.rows)
    /\ locks' = [locks EXCEPT !.rows.writer = t]
    /\ threads' = [threads EXCEPT ![t].pc = "load_row"]
    /\ UNCHANGED <<key_reg, lin, held>>
    /\ KeysIdle

\* key_down, key_up: the load of rows[i] in rows[i] &= mask, rows[i] |= mask
LoadRow(t) ==
    /\ threads[t].pc = "load_row"
    /\ threads' = [threads EXCEPT ![t].pc = "store_row",
                                  ![t].row = key_reg.rows[KeyRow(threads[t].key)]]
    /\ UNCHANGED <<key_reg, locks, lin, held>>
    /\ KeysIdle

\* key_down, key_up: the store of rows[i] &= mask, rows[i] |= mask, and the return
StoreRow(t) ==
    LET key == threads[t].key
        down == threads[t].op = "key_down"
    IN
    /\ threads[t].pc = "store_row"
    /\ key_reg' = [key_reg EXCEPT !.rows[KeyRow(key)] =
                      IF down THEN BitAnd(threads[t].row, KeyDownMask(key))
                      ELSE BitOr(threads[t].row, KeyUpMask(key))]
    /\ lin' = [lin EXCEPT !.reg = IF down THEN key_down(@, key) ELSE key_up(@, key)]
    /\ held' = IF down THEN held \cup {key} ELSE held \ {key}
    /\ locks' = [locks EXCEPT !.rows = Drop(@, t)]
    /\ threads' = [threads EXCEPT ![t] = Idle]
    /\ KeysIdle

\* get_keys: let column = self.column.read().unwrap()
ColumnRead(t) ==
    /\ threads[t].pc = "column_read"
    /\ ReadFree(locks.column)
    /\ locks' = [locks EXCEPT !.column.readers = @ \cup {t}]
    /\ threads' = [threads EXCEPT ![t].pc = "rows_read"]
    /\ UNCHANGED <<key_reg, lin, held>>
    /\ KeysIdle

\* get_keys: let rows = self.rows.read().unwrap()
RowsRead(t) ==
    /\ threads[t].pc = "rows_read"
    /\ ReadFree(locks.rows)
    /\ locks' = [locks EXCEPT !.rows.readers = @ \cup {t}]
    /\ threads' = [threads EXCEPT ![t].pc = "load_column"]
    /\ UNCHANGED <<key_reg, lin, held>>
    /\ KeysIdle

\* get_keys: match *column
LoadColumn(t) ==
    /\ threads[t].pc = "load_column"
    /\ threads' = [threads EXCEPT ![t].pc = "load_keys", ![t].column = key_reg.column]
    /\ UNCHANGED <<key_reg, locks, lin, held>>
    /\ KeysIdle

\* get_keys: 0x10 => rows[0], 0x20 => rows[1], _ => 0, and the return
LoadKeys(t) ==
    /\ threads[t].pc = "load_keys"
    /\ \E got \in {CASE threads[t].column = \h10 -> key_reg.rows[1]
                     [] threads[t].column = \h20 -> key_reg.rows[2]
                     [] OTHER -> 0} :
           lin' = [lin EXCEPT !.ret_ok = @ /\ (got = get_keys(lin.reg))]
    /\ locks' = [locks EXCEPT !.column = Drop(@, t), !.rows = Drop(@, t)]
    /\ threads' = [threads EXCEPT ![t] = [Idle EXCEPT !.op = "get_keys"]]
    /\ UNCHANGED <<key_reg, held>>
    /\ KeysIdle

(***************************************************************************)
(* Specifications                                                          *)
(***************************************************************************)
EmptyWritten == [a \in {} |-> 0]


\* the MMU and the KeyReg as created, called by an arbitrary client
MmuCart == [kind |-> "prog", n |-> 1]

InitMmu ==
    /\ overflow_checks \in BOOLEAN
    /\ debug_gb_doctor = FALSE
    /\ cpu = new_cpu(FALSE)
    /\ mmu = new_mmu(MmuCart)
    /\ key_reg = new_key_reg
    /\ panicked = FALSE
    /\ last_op = NoOp
    /\ written = EmptyWritten
    /\ dispatched = <<>>
    /\ nops = 0
    /\ gpu = new_gpu
    /\ engine = NoEngine
    /\ screen = NoScreen
    /\ held = {}
    /\ threads = NoThreads
    /\ locks = NoLocks
    /\ lin = NoLin

NextMmu ==
    \/ \E addr \in MmuAddrs : MmuRb(addr)
    \/ \E addr \in WordAddrs : MmuRw(addr)
    \/ \E addr \in MmuAddrs, val \in MmuVals : MmuWb(addr, val)
    \/ \E addr \in WordAddrs, val \in MmuWords : MmuWw(addr, val)
    \/ \E val \in ColumnVals : KeySetColumn(val)
    \/ KeyGetKeys
    \/ \E key \in Keys : KeyDown(key)
    \/ \E key \in Keys : KeyUp(key)

SpecMmu == InitMmu /\ [][NextMmu]_vars

\* the machine as start_game_boy creates it, for every cartridge and build
InitCpu ==
    /\ overflow_checks \in BOOLEAN
    /\ debug_gb_doctor \in BOOLEAN
    /\ cpu = new_cpu(debug_gb_doctor)
    /\ \E cart \in Carts : mmu = new_mmu(cart)
    /\ key_reg = new_key_reg
    /\ panicked = FALSE
    /\ last_op = NoOp
    /\ written = EmptyWritten
    /\ dispatched = <<>>
    /\ nops = 0
    /\ gpu = new_gpu
    /\ engine = NoEngine
    /\ screen = NoScreen
    /\ held = {}
    /\ threads = NoThreads
    /\ locks = NoLocks
    /\ lin = NoLin

NextCpu == Exec

SpecCpu == InitCpu /\ [][NextCpu]_vars

\* the emulation thread of start_game_boy, for every cartridge and build
InitEngine == InitCpu

NextEngine ==
    \/ LoopExec
    \/ LoopStep
    \/ ReceiverDropped

SpecEngine == InitEngine /\ [][NextEngine]_vars

\* the KeyReg as main creates it, shared by the window thread and the emulation thread
InitKeys == InitMmu

NextKeys ==
    \E t \in Threads :
        \/ \E key \in ThreadKeys(t) : KeyCall(t, "key_down", key, 0)
        \/ \E key \in ThreadKeys(t) : KeyCall(t, "key_up", key, 0)
        \/ \E val \in ThreadColumns : KeyCall(t, "set_column", "A", val)
        \/ KeyCall(t, "get_keys", "A", 0)
        \/ ColumnWrite(t)
        \/ StoreColumn(t)
        \/ RowsWrite(t)
        \/ LoadRow(t)
        \/ StoreRow(t)
        \/ ColumnRead(t)
        \/ RowsRead(t)
        \/ LoadColumn(t)
        \/ LoadKeys(t)

SpecKeys == InitKeys /\ [][NextKeys]_vars

\* a step of thread t inside a call it has begun
ThreadStep(t) ==
    \/ ColumnWrite(t) \/ StoreColumn(t)
    \/ RowsWrite(t) \/ LoadRow(t) \/ StoreRow(t)
    \/ ColumnRead(t) \/ RowsRead(t) \/ LoadColumn(t) \/ LoadKeys(t)

\* the two threads under a scheduler that lets a thread run when it can: a
\* thread inside a call whose next step stays possible takes it.  No thread
\* is obliged to begin a call.
SpecKeysFair == SpecKeys /\ \A t \in Threads : WF_vars(ThreadStep(t))

(***************************************************************************)
(* Properties of the MMU and the joypad register, checked under SpecMmu    *)
(***************************************************************************)
\* the address the memory map documents as the echo partner of addr
EchoOf(addr) ==
    CASE addr >= \hC000 /\ addr <= \hDDFF -> addr + \h2000
      [] addr >= \hE000 /\ addr <= \hFDFF -> addr - \h2000
      [] OTHER -> addr

\* C5: a byte stored at a work-RAM address a in 0xC000-0xDDFF is read back
\* at its echo a + 0x2000, and a byte stored at the echo is read back at a:
\* a completed rb of an address whose echo partner is the only one of the
\* two that was stored to returns the byte stored at the partner.
C5_EchoAlias ==
    (/\ last_op.op = "rb"
     /\ last_op.ok
     /\ EchoOf(last_op.addr) # last_op.addr
     /\ EchoOf(last_op.addr) \in DOMAIN written
     /\ last_op.addr \notin DOMAIN written)
    => last_op.ret = written[EchoOf(last_op.addr)]

\* the failing case of C5: 0x5A stored at 0xD000 is not read back at 0xF000
C5_EchoBroken ==
    /\ last_op.op = "rb" /\ last_op.ok /\ last_op.addr = \hF000
    /\ \hD000 \in DOMAIN written /\ written[\hD000] = \h5A
    /\ \hF000 \notin DOMAIN written
    /\ last_op.ret # \h5A

InRam(addr) ==
    \/ addr >= \h8000 /\ addr <= \h9FFF
    \/ addr >= \hC000 /\ addr <= \hDFFF
    \/ addr >= \hFE00 /\ addr <= \hFE9F
    \/ addr >= \hFF80 /\ addr <= \hFFFE

\* C6: in VRAM, OAM, WRAM and HRAM a completed rb(a) returns the byte last
\* stored at a, as long as no store went to a's echo partner: stores to any
\* other address leave it alone.
C6_ReadBack ==
    (/\ last_op.op = "rb"
     /\ last_op.ok
     /\ InRam(last_op.addr)
     /\ last_op.addr \in DOMAIN written
     /\ (EchoOf(last_op.addr) = last_op.addr \/ EchoOf(last_op.addr) \notin DOMAIN written))
    => last_op.ret = written[last_op.addr]

\* the failing case of C6: the byte stored at 0xC000 is replaced by a store
\* to 0xF000, which is not its echo partner
C6_Clobbered ==
    /\ last_op.op = "rb" /\ last_op.ok /\ last_op.addr = \hC000
    /\ \hC000 \in DOMAIN written /\ \hF000 \in DOMAIN written
    /\ \hE000 \notin DOMAIN written
    /\ written[\hC000] # written[\hF000]
    /\ last_op.ret = written[\hF000]

\* C7: a completed rw(addr) returns rb(addr) + 256 * rb(addr + 1), the low
\* byte from addr and the high byte from addr + 1.
C7_LittleEndian ==
    (last_op.op = "rw" /\ last_op.ok)
    => last_op.ret = rb(mmu, last_op.addr).v + 256 * rb(mmu, U16(last_op.addr + 1)).v

\* the failing case of C7: the cartridge holds 0x12 0x34 at 0x4000 and
\* rw(0x4000) returns 0x1212
C7_SameByteTwice ==
    /\ last_op.op = "rw" /\ last_op.ok /\ last_op.addr = \h4000
    /\ rb(mmu, \h4000).v = \h12 /\ rb(mmu, \h4001).v = \h34
    /\ last_op.ret = \h1212

\* C8: the memory map is total: every rb and every wb completes, none
\* ends in a panic.
C8_Total == (last_op.op \in {"rb", "wb"}) => last_op.ok

\* the failing cases of C8: a read of OAM and a store to the I/O page panic
C8_Panics ==
    /\ panicked
    /\ \/ last_op.op = "rb" /\ last_op.addr = \hFE00
       \/ last_op.op = "wb" /\ last_op.addr = \hFF00

\* C9: in_bios is true from the creation of the MMU until the CPU fetches
\* an instruction at 0x0100; data reads and writes, a read of 0x0100
\* among them, leave it true, and while it is true a read below 0x0100
\* returns the boot-ROM byte.  (Until exec has run nothing has been fetched.)
C9_InBiosUntilFetch ==
    (last_op.op # "exec")
    => /\ mmu.in_bios
       /\ (last_op.op = "rb" /\ last_op.ok /\ last_op.addr < \h0100)
          => last_op.ret = BIOS[last_op.addr + 1]

\* the failing case of C9: with no instruction fetched, rb(0x0100) has
\* cleared in_bios
C9_DataReadClears ==
    /\ last_op.op = "rb" /\ last_op.ok /\ last_op.addr = \h0100
    /\ ~mmu.in_bios

\* C10: the joypad register is routed through the KeyReg: a store of v to
\* 0xFF00 completes and leaves column = v & 0x30, and a read of 0xFF00
\* returns get_keys().
C10_JoypadRouted ==
    /\ (last_op.op = "wb" /\ last_op.addr = \hFF00)
       => (last_op.ok /\ key_reg.column = BitAnd(last_op.val, \h30))
    /\ (last_op.op = "rb" /\ last_op.addr = \hFF00)
       => (last_op.ok /\ last_op.ret = get_keys(key_reg))

\* the failing case of C10: with the action row selected and no key held,
\* get_keys() is 0x0F and rb(0xFF00) returns 0
C10_ReadsZero ==
    /\ last_op.op = "rb" /\ last_op.ok /\ last_op.addr = \hFF00
    /\ key_reg.column = \h10
    /\ get_keys(key_reg) = \h0F
    /\ last_op.ret = 0

(***************************************************************************)
(* Properties of the CPU, checked under SpecCpu                            *)
(***************************************************************************)
\* C1: every call of exec that returns, whatever the opcode, returns a pair
\* (m_cycles, t_cycles) with t_cycles = 4 * m_cycles.
C1_TCyclesFourM ==
    (last_op.op = "exec" /\ last_op.ok) => last_op.t = 4 * last_op.ret

\* C1 happens: a CB-prefixed instruction on (HL) returned (4, 16), and a
\* primary opcode returned (6, 24)
C1_ExecReturned ==
    /\ last_op.op = "exec" /\ last_op.ok
    /\ \/ last_op.val = \hCB /\ last_op.ret = 4 /\ last_op.t = 16
       \/ last_op.val = \hCD /\ last_op.ret = 6 /\ last_op.t = 24

\* C2: in every state of the CPU the low nibble of F is zero.
C2_FLowNibbleZero == cpu.reg_f % 16 = 0

\* C2 happens: POP AF has popped the bytes 0xFF, 0xA5 and left F = 0xF0
C2_PopAfMasked ==
    /\ last_op.op = "exec" /\ last_op.ok /\ last_op.val = \hF1
    /\ rb(mmu, last_op.pre.reg_sp).v = \hFF
    /\ cpu.reg_a = \hA5
    /\ cpu.reg_f = \hF0

\* the memory cell at addr as the CPU would read it
Peek(addr) == rb(mmu, addr).v

IrqOrder == <<\h40, \h48, \h50, \h58, \h60>>

Min(a, b) == IF a < b THEN a ELSE b

\* the program that stores 0x1F to IE (0xFFFF) and to IF (0xFF0F) with IME
\* set, run from the post-boot register set; its fourth instruction is the
\* store to IF and the vectors hold EI
IrqScenario == debug_gb_doctor /\ mmu.cart = [kind |-> "prog", n |-> 2]

\* C3: starting with IE = IF = 0x1F and IME set, successive instruction
\* boundaries dispatch VBlank, LCDStat, Timer, Serial, Joypad in that
\* order: from the store to IF on, after each further boundary the vectors
\* dispatched to are 0x40, 0x48, 0x50, 0x58, 0x60, one more at each.
C3_PriorityOrder ==
    (IrqScenario /\ nops >= 4)
    => (~panicked /\ dispatched = SubSeq(IrqOrder, 1, Min(nops - 3, 5)))

\* the failing case of C3: the store of 0x1F to 0xFF0F ends the thread and
\* nothing was dispatched
C3_RequestPanics ==
    /\ IrqScenario
    /\ panicked
    /\ last_op.op = "exec" /\ last_op.val = \hE0 /\ Peek(last_op.addr + 1) = \h0F
    /\ Peek(\hFFFF) = \h1F /\ cpu.reg_a = \h1F /\ cpu.ime
    /\ dispatched = <<>>

\* the lowest of the interrupt bits 0..4 set in x (x has one of them set)
LowestBit(x) == CHOOSE b \in 0 .. 4 : Bit(x, b) = 1 /\ \A c \in 0 .. (b - 1) : Bit(x, c) = 0

\* C4: an exec that ends with IME set and an enabled interrupt requested
\* dispatches it after the instruction: it clears that bit in IF, clears
\* IME, pushes the post-instruction PC (high byte at SP-1, low at SP-2),
\* lowers SP by 2, sets PC to the vector and adds 5 m / 20 T to the
\* instruction's cycles.  The instruction here is LDH (0x0F),A (3 m),
\* which makes the request: A & IE has one of the bits 0..4.
C4_DispatchEffects ==
    (/\ last_op.op = "exec"
     /\ last_op.val = \hE0
     /\ Peek(last_op.addr + 1) = \h0F
     /\ last_op.pre.ime
     /\ BitAnd(last_op.pre.reg_a, Peek(\hFFFF)) % 32 # 0)
    => LET pending == BitAnd(last_op.pre.reg_a, Peek(\hFFFF)) % 32
           bit == LowestBit(pending)
           ret_pc == last_op.addr + 2
       IN  /\ last_op.ok
           /\ Peek(REG_INTERRUPTS) = last_op.pre.reg_a - Pow2(bit)
           /\ ~cpu.ime
           /\ cpu.reg_sp = Wrap16(last_op.pre.reg_sp - 2)
           /\ Peek(Wrap16(last_op.pre.reg_sp - 1)) = ret_pc \div 256
           /\ Peek(Wrap16(last_op.pre.reg_sp - 2)) = ret_pc % 256
           /\ cpu.reg_pc = IrqOrder[bit + 1]
           /\ last_op.ret = 3 + 5
           /\ last_op.t = 12 + 20

\* the failing case of C4: exec ran LDH (0x0F),A with IME set and A & IE
\* non-zero, and it did not return: no bit cleared, IME still set, nothing
\* pushed, PC not at a vector
C4_NoDispatch ==
    /\ last_op.op = "exec" /\ last_op.val = \hE0 /\ Peek(last_op.addr + 1) = \h0F
    /\ last_op.pre.ime
    /\ BitAnd(last_op.pre.reg_a, Peek(\hFFFF)) % 32 # 0
    /\ ~last_op.ok
    /\ cpu.ime /\ cpu.reg_sp = last_op.pre.reg_sp /\ cpu.reg_pc = last_op.addr

(***************************************************************************)
(* Properties of the GPU in the loop of start_game_boy, checked under      *)
(* SpecEngine                                                              *)
(***************************************************************************)
\* the last statement the emulation thread ran is a call of GPU::step
Stepped == last_op.op = "step"

\* the thread panicked inside the first GPU::step, having sent no frame
StepPanicked == Stepped /\ panicked /\ ~last_op.ok /\ engine.frames = 0 /\ gpu = new_gpu

\* C11: every call of GPU::step in the loop returns, and whenever it sends
\* a frame after an earlier one, exactly 70224 T-cycles of exec time were
\* handed to step since that earlier frame, whatever the cycle counts of
\* the single instructions.
C11_FramePeriod ==
    Stepped =>
        /\ last_op.ok
        /\ (engine.sent /\ engine.frames > 1) => engine.gap = 70224

\* the failing case of C11: the first step panics in its store to 0xFF44
\* before any frame; and the mode machine itself restarts mode_clock at 0
\* when a mode ends, dropping the T-cycles past the duration of the mode
C11_NoFrameEver ==
    /\ StepPanicked
    /\ engine.delta_t > 0
    /\ StepModes([new_gpu EXCEPT !.mode = "ScOam", !.mode_clock = 76], mmu, 8).g.mode_clock = 0

\* C12: every call of GPU::step returns, and after it a read of 0xFF44
\* through the MMU returns the line the GPU is on (so the next exec, which
\* starts in this state, sees the current scanline).
C12_LineRegister ==
    Stepped => (last_op.ok /\ rb(mmu, REG_CURR_SCAN_LINE).v = gpu.line)

\* the failing case of C12: the store of line to 0xFF44 panics; 0xFF44
\* reads 0 whatever the line is, here after the mode machine has moved a
\* GPU at the end of the HBlank of line 0 on to line 1
C12_LineNotStored ==
    /\ StepPanicked
    /\ ~wb(mmu, REG_CURR_SCAN_LINE, gpu.line).ok
    /\ StepModes([new_gpu EXCEPT !.mode_clock = 200], mmu, 4).g.line = 1
    /\ rb(mmu, REG_CURR_SCAN_LINE).v = 0

\* C13: every call of GPU::step returns; it sends a frame exactly when it
\* takes the GPU from HBlank to VBlank, and the GPU is then on line 144
\* (the HBlank of scanline 143 has just ended).
C13_FrameAtVBlank ==
    Stepped =>
        /\ last_op.ok
        /\ engine.sent <=> (engine.pre.mode = "HBlank" /\ gpu.mode = "VBlank")
        /\ engine.sent => gpu.line = 144

\* the failing case of C13: the first step panics before any frame is sent;
\* and the HBlank arm of the mode machine sends the frame when line becomes
\* 143, at the end of the HBlank of scanline 142, and not on the next line
C13_FrameOnLine143 ==
    /\ StepPanicked
    /\ LET Early(r) == r.sent /\ r.g.mode = "VBlank" /\ r.g.line = 143
           Late(r) == ~r.sent /\ r.g.mode = "ScOam" /\ r.g.line = 144
       IN  /\ Early(StepModes([mode |-> "HBlank", mode_clock |-> 200, line |-> 142], mmu, 4))
           /\ Late(StepModes([mode |-> "HBlank", mode_clock |-> 200, line |-> 143], mmu, 4))

\* C14: every call of GPU::step returns, and one that takes the GPU into
\* VBlank leaves bit 0 (VBlank) of the interrupt-flag register 0xFF0F set,
\* so that the next exec finds the request.
C14_VBlankRequested ==
    Stepped =>
        /\ last_op.ok
        /\ (engine.pre.mode # "VBlank" /\ gpu.mode = "VBlank")
              => BitAnd(rb(mmu, REG_INTERRUPTS).v, FLAG_INT_VBLANK) # 0

\* the failing case of C14: the first step panics; and the arm of the mode
\* machine that enters VBlank leaves the MMU as it was, with bit 0 of
\* 0xFF0F reading 0
C14_NoRequest ==
    /\ StepPanicked
    /\ LET Entered(r) ==
               /\ r.g.mode = "VBlank"
               /\ r.m = mmu
               /\ BitAnd(rb(r.m, REG_INTERRUPTS).v, FLAG_INT_VBLANK) = 0
       IN  Entered(StepModes([mode |-> "HBlank", mode_clock |-> 200, line |-> 142], mmu, 4))

\* the T-cycles a mode lasts (one line of it, for VBlank)
Duration(mode) ==
    CASE mode = "ScOam" -> 80
      [] mode = "ScVram" -> 172
      [] mode = "HBlank" -> 204
      [] OTHER -> 456

\* the mode changes and line changes the PPU is meant to make in one step
\* from GPU p to GPU g with clock T-cycles accumulated in the mode of p
ModeRule(p, g, clock) ==
    IF clock < Duration(p.mode)
    THEN g.mode = p.mode /\ g.line = p.line
    ELSE CASE p.mode = "ScOam" -> g.mode = "ScVram" /\ g.line = p.line
           [] p.mode = "ScVram" -> g.mode = "HBlank" /\ g.line = p.line
           [] p.mode = "HBlank" ->
                 /\ g.line = p.line + 1
                 /\ g.mode = IF p.line = 143 THEN "VBlank" ELSE "ScOam"
           [] OTHER ->
                 IF p.line = 153
                 THEN g.mode = "ScOam" /\ g.line = 0
                 ELSE g.mode = "VBlank" /\ g.line = p.line + 1

\* C15: every call of GPU::step returns, and it moves the GPU as the mode
\* machine prescribes: ScOam to ScVram to HBlank, HBlank to VBlank after
\* the last visible line (143) and to ScOam otherwise, VBlank to ScOam; a
\* mode is left only once mode_clock has reached its duration; line is
\* within 0..153, goes up by 1 at the end of each HBlank and each VBlank
\* line and back to 0 when VBlank is left after line 153.
C15_ModeMachine ==
    Stepped =>
        /\ last_op.ok
        /\ gpu.line \in 0 .. 153
        /\ ModeRule(engine.pre, gpu, engine.pre.mode_clock + engine.delta_t)

\* the failing case of C15: the first step panics, so the GPU never leaves
\* its first HBlank; and the mode machine leaves HBlank for VBlank at the
\* end of line 142, one line before the last visible line, while the other
\* arms (ScOam, ScVram, VBlank, an HBlank before line 142) follow the rule
C15_NeverLeavesHBlank ==
    /\ StepPanicked
    /\ engine.pre.mode_clock + engine.delta_t < Duration("HBlank")
    /\ LET Broken(p, r) == ~ModeRule(p, r.g, p.mode_clock + 4)
           Kept(p, r) == ModeRule(p, r.g, p.mode_clock + 4)
           Try(P(_, _), p) == P(p, StepModes(p, mmu, 4))
       IN  /\ Try(Broken, [mode |-> "HBlank", mode_clock |-> 200, line |-> 142])
           /\ Try(Kept, [mode |-> "HBlank", mode_clock |-> 200, line |-> 0])
           /\ Try(Kept, [mode |-> "ScOam", mode_clock |-> 76, line |-> 0])
           /\ Try(Kept, [mode |-> "ScOam", mode_clock |-> 72, line |-> 0])
           /\ Try(Kept, [mode |-> "ScVram", mode_clock |-> 168, line |-> 0])
           /\ Try(Kept, [mode |-> "VBlank", mode_clock |-> 452, line |-> 150])
           /\ Try(Kept, [mode |-> "VBlank", mode_clock |-> 452, line |-> 153])

(***************************************************************************)
(* Properties of the CPU at the end of the address space and in HALT,      *)
(* checked under SpecCpu                                                   *)
(***************************************************************************)
\* C16: an exec that fetches its opcode at PC = 0xFFFF returns, and the
\* next byte is fetched from 0x0000: after a NOP there PC is 0x0000, after
\* LD A,n8 there A holds the byte at 0x0000 and PC is 0x0001.
C16_FetchWraps ==
    (last_op.op = "exec" /\ last_op.addr = \hFFFF) =>
        /\ last_op.ok
        /\ last_op.val = \h00 => cpu.reg_pc = \h0000
        /\ last_op.val = \h3E => (cpu.reg_pc = \h0001 /\ cpu.reg_a = Peek(\h0000))

\* the failing case of C16: with the trace line compiled in and overflow
\* checks on, the exec at PC = 0xFFFF panics on self.reg_pc + 1
C16_TracePanics ==
    /\ panicked
    /\ last_op.op = "exec" /\ last_op.addr = \hFFFF /\ ~last_op.ok
    /\ debug_gb_doctor /\ overflow_checks
    /\ cpu.reg_pc = \hFFFF

\* without overflow checks the same exec returns with PC wrapped
FetchWrapped ==
    /\ last_op.op = "exec" /\ last_op.addr = \hFFFF /\ last_op.ok
    /\ ~overflow_checks
    /\ last_op.val = \h3E /\ cpu.reg_pc = \h0001 /\ cpu.reg_a = \hC3

\* the registers and latches of the CPU, the two clocks apart
ArchFields == CpuFields \ {"clock_m", "clock_t"}

\* C17: an exec that starts with the HALT latch set and with no interrupt
\* pending (IE & IF = 0) returns 1 machine cycle and leaves PC, every
\* register and the latches as they were: nothing is fetched or executed.
C17_HaltIdles ==
    (/\ last_op.op = "exec"
     /\ last_op.pre.halt
     /\ BitAnd(Peek(\hFFFF), Peek(REG_INTERRUPTS)) = 0)
    => /\ last_op.ok
       /\ last_op.ret = 1
       /\ \A f \in ArchFields : cpu[f] = last_op.pre[f]

\* the failing case of C17: the exec after HALT (0x76 at 0x0100) fetches
\* and executes the NOP at 0x0101 and moves PC on to 0x0102, the latch
\* still set
C17_RunsThroughHalt ==
    /\ last_op.op = "exec" /\ last_op.ok
    /\ last_op.pre.halt /\ cpu.halt
    /\ BitAnd(Peek(\hFFFF), Peek(REG_INTERRUPTS)) = 0
    /\ last_op.addr = \h0101 /\ last_op.val = \h00
    /\ cpu.reg_pc = \h0102

(***************************************************************************)
(* Properties of the shared joypad register, checked under SpecKeys        *)
(***************************************************************************)
\* the bit of its row byte a key owns: A, B, SELECT, START are bits 0 to 3
\* of the action row, RIGHT, LEFT, UP, DOWN bits 0 to 3 of the direction row
KeyBit(key) ==
    CASE key \in {"A", "RIGHT"} -> 0
      [] key \in {"B", "LEFT"} -> 1
      [] key \in {"SELECT", "UP"} -> 2
      [] OTHER -> 3

ActionKeys == {"A", "B", "SELECT", "START"}

RowOf(key) == IF key \in ActionKeys THEN 1 ELSE 2

\* C18: the bit a key owns in its row is 0 exactly when the most recent
\* event for that key is key_down (whatever happened to the other keys);
\* key_down and key_up leave column alone and are idempotent.
C18_KeyBits ==
    /\ \A key \in Keys : (Bit(key_reg.rows[RowOf(key)], KeyBit(key)) = 0) <=> (key \in held)
    /\ \A key \in Keys :
          /\ key_down(key_reg, key).column = key_reg.column
          /\ key_up(key_reg, key).column = key_reg.column
          /\ key_down(key_down(key_reg, key), key) = key_down(key_reg, key)
          /\ key_up(key_up(key_reg, key), key) = key_up(key_reg, key)

\* every call made has returned
Quiescent == \A t \in Threads : threads[t].pc = "idle"

\* DOWN pressed and kept down while A was pressed and released again: bit 3
\* of the direction row is 0, every other key's bit is 1
C18_DownHeldAReleased ==
    /\ Quiescent
    /\ lin.calls = 3
    /\ held = {"DOWN"}
    /\ key_reg.rows = <<\h0F, \h07>>

\* the key that owns bit i of row r held down
PressedAt(r, i) == \E key \in held : RowOf(key) = r /\ KeyBit(key) = i

\* C19: in every state of the KeyReg each of the eight bits of each row
\* byte is 0 where a key that is held down owns it and 1 everywhere else,
\* the four bits no key owns included.
C19_UnusedBitsOne ==
    \A r \in 1 .. 2 : \A i \in 0 .. 7 :
        Bit(key_reg.rows[r], i) = IF PressedAt(r, i) THEN 0 ELSE 1

\* the failing case of C19: with A held down the action row is 0x0E and the
\* direction row 0x0F, bits 4 to 7 of both are 0 (as they are from creation)
C19_HighNibbleZero ==
    /\ Quiescent
    /\ held = {"A"}
    /\ key_reg.rows = <<\h0E, \h0F>>
    /\ \A r \in 1 .. 2 : \A i \in 4 .. 7 : Bit(key_reg.rows[r], i) = 0
    /\ new_key_reg.rows = <<\h0F, \h0F>>

\* C20: whatever the interleaving of the steps of the calls of the two
\* threads, column and the two rows are those of the sequential order in
\* which the calls took effect (no store of a row is lost) and every
\* get_keys returned the row that order gives at the point of the call.
C20_Linearizable == key_reg = lin.reg /\ lin.ret_ok

\* two key events on the action row that overlapped have both taken
\* effect: A pressed by one thread, B by the other
C20_BothKeysDown ==
    /\ Quiescent
    /\ lin.calls = 2 /\ lin.overlapped
    /\ held = {"A", "B"}
    /\ key_reg.rows = <<\h0C, \h0F>>

(***************************************************************************)
(* Properties of the emulation thread and the frame channel, checked       *)
(* under SpecEngine                                                        *)
(***************************************************************************)
\* C21: once the receiving end of the frame channel has been dropped, a
\* call of GPU::step does not end in a panic, and a call whose send has
\* failed is the last: the thread has left the loop.
C21_CleanExit ==
    (Stepped /\ engine.receiver = "dropped") =>
        /\ ~panicked
        /\ (engine.pre.mode = "HBlank" /\ gpu.mode = "VBlank") => engine.at = "exited"

\* the failing case of C21: with the receiver dropped the thread panics in
\* its first step (the store to 0xFF44) without having tried to send; and
\* the arm of the mode machine that sends unwraps the failed send, so that
\* step does not return
C21_PanicsInstead ==
    /\ StepPanicked
    /\ engine.receiver = "dropped"
    /\ ~StepModes([mode |-> "HBlank", mode_clock |-> 200, line |-> 142], mmu, 4).ok

(***************************************************************************)
(* Properties of the instruction set, checked under SpecCpu                *)
(***************************************************************************)
\* the last call of exec: it ran opcode opc, fetched at last_op.addr
Ran(opc) == last_op.op = "exec" /\ last_op.val = opc

\* C22: CALL at p with SP = s and s-2, s-1 in RAM leaves PC at the word
\* lo + 256 * hi that follows the opcode, SP at s-2, the low byte of p+3
\* at s-2 and its high byte at s-1; RET with SP = s and s, s+1 in RAM
\* leaves PC at the word stored at s (low byte at s, high byte at s+1) and
\* SP at s+2, so that RET after CALL returns to p+3 with SP restored.
C22_CallRetRoundTrip ==
    LET p == last_op.addr
        s == last_op.pre.reg_sp
    IN  /\ (Ran(\hCD) /\ InRam(Wrap16(s - 2)) /\ InRam(Wrap16(s - 1))) =>
              /\ last_op.ok
              /\ cpu.reg_pc = Peek(Wrap16(p + 1)) + 256 * Peek(Wrap16(p + 2))
              /\ cpu.reg_sp = Wrap16(s - 2)
              /\ Peek(Wrap16(s - 2)) = Wrap16(p + 3) % 256
              /\ Peek(Wrap16(s - 1)) = Wrap16(p + 3) \div 256
        /\ (Ran(\hC9) /\ InRam(s) /\ InRam(Wrap16(s + 1))) =>
              /\ last_op.ok
              /\ cpu.reg_pc = Peek(s) + 256 * Peek(Wrap16(s + 1))
              /\ cpu.reg_sp = Wrap16(s + 2)

\* the failing case of C22: CALL 0x1234 at 0x0100 with SP = 0xFFFE stores
\* 0x0103 at 0xFFFC as claimed but leaves PC = 0x3434
C22_CallTargetLowByteTwice ==
    /\ Ran(\hCD) /\ last_op.ok
    /\ last_op.addr = \h0100 /\ last_op.pre.reg_sp = \hFFFE
    /\ Peek(\h0101) = \h34 /\ Peek(\h0102) = \h12
    /\ cpu.reg_sp = \hFFFC /\ Peek(\hFFFC) = \h03 /\ Peek(\hFFFD) = \h01
    /\ cpu.reg_pc = \h3434

\* the RET that follows pops 0x0303 instead of 0x0103
RetLowByteTwice ==
    /\ Ran(\hC9) /\ last_op.ok
    /\ last_op.pre.reg_sp = \hFFFC /\ Peek(\hFFFC) = \h03 /\ Peek(\hFFFD) = \h01
    /\ cpu.reg_sp = \hFFFE
    /\ cpu.reg_pc = \h0303


(***************************************************************************)
(* The additions and subtractions on A as functions of their inputs: the   *)
(* accumulator, the operand (in register B) and the carry flag are drawn   *)
(* from all their values, and one of the instructions is applied once.     *)
(***************************************************************************)
AluOps == {"add_a", "adc_a", "sub_a", "sbc_a", "cp_a"}

AluRun(op, s) ==
    CASE op = "add_a" -> add_a(s, "B")
      [] op = "adc_a" -> adc_a(s, "B")
      [] op = "sub_a" -> sub_a(s, "B")
      [] op = "sbc_a" -> sbc_a(s, "B")
      [] op = "cp_a" -> cp_a(s, "B")

AluApply(op) ==
    /\ last_op.op = "none"
    /\ \E r \in {AluRun(op, Mach(cpu, mmu))} :
         /\ cpu' = CpuOf(r.s)
         /\ last_op' = [op |-> op, addr |-> cpu.reg_pc, val |-> cpu.reg_b, ret |-> r.cyc,
                        t |-> CyclesT(r.cyc), irq |-> 0, ok |-> TRUE, pre |-> cpu]
    /\ UNCHANGED <<mmu, key_reg, panicked, overflow_checks, debug_gb_doctor, written,
                   dispatched, nops, gpuVars, held, threadVars>>

InitAlu ==
    /\ overflow_checks = FALSE
    /\ debug_gb_doctor = FALSE
    /\ \E a \in 0 .. 255, x \in 0 .. 255, f \in {0, FLAG_CARRY} :
         cpu = [new_cpu(FALSE) EXCEPT !.reg_a = a, !.reg_b = x, !.reg_f = f]
    /\ mmu = new_mmu(MmuCart)
    /\ key_reg = new_key_reg
    /\ panicked = FALSE
    /\ last_op = NoOp
    /\ written = EmptyWritten
    /\ dispatched = <<>>
    /\ nops = 0
    /\ gpu = new_gpu
    /\ engine = NoEngine
    /\ screen = NoScreen
    /\ held = {}
    /\ threads = NoThreads
    /\ locks = NoLocks
    /\ lin = NoLin

NextAlu ==
    \/ AluApply("add_a")
    \/ AluApply("adc_a")
    \/ AluApply("sub_a")
    \/ AluApply("sbc_a")
    \/ AluApply("cp_a")

SpecAlu == InitAlu /\ [][NextAlu]_vars

(***************************************************************************)
(* Properties of the arithmetic on A, checked under SpecAlu                *)
(***************************************************************************)
AluCin == IF last_op.op \in {"adc_a", "sbc_a"} /\ BitAnd(last_op.pre.reg_f, FLAG_CARRY) > 0
          THEN 1 ELSE 0

AluFlag(mask) == BitAnd(cpu.reg_f, mask) > 0

\* C23: after ADD or ADC of x to A with carry in Cin (0 for ADD) the result is
\* (A + x + Cin) mod 256, Z says the result is 0, N is clear, H says
\* (A & 0xF) + (x & 0xF) + Cin > 0xF and C says A + x + Cin > 0xFF; after SUB,
\* SBC or CP (Cin 0 for SUB and CP) the result is (A - x - Cin) mod 256, Z
\* says the result is 0, N is set, H says (A & 0xF) < (x & 0xF) + Cin and C
\* says A < x + Cin; CP leaves A as it was, the others store the result in A.
C23_AluFlags ==
    LET a == last_op.pre.reg_a
        x == last_op.val
        cin == AluCin
        sum == (a + x + cin) % 256
        diff == (a - x - cin + 512) % 256
    IN  /\ last_op.op \in {"add_a", "adc_a"} =>
            /\ cpu.reg_a = sum
            /\ AluFlag(FLAG_ZERO) = (sum = 0)
            /\ ~AluFlag(FLAG_SUB)
            /\ AluFlag(FLAG_HALF_CARRY) = ((a % 16) + (x % 16) + cin > 15)
            /\ AluFlag(FLAG_CARRY) = (a + x + cin > 255)
        /\ last_op.op \in {"sub_a", "sbc_a", "cp_a"} =>
            /\ cpu.reg_a = (IF last_op.op = "cp_a" THEN a ELSE diff)
            /\ AluFlag(FLAG_ZERO) = (diff = 0)
            /\ AluFlag(FLAG_SUB)
            /\ AluFlag(FLAG_HALF_CARRY) = ((a % 16) < (x % 16) + cin)
            /\ AluFlag(FLAG_CARRY) = (a < x + cin)

\* ADC of 0 to 0xFF with the carry set: only adding the carry in overflows
C23_CarryInOverflows ==
    /\ last_op.op = "adc_a"
    /\ last_op.pre.reg_a = 255 /\ last_op.val = 0 /\ AluCin = 1
    /\ cpu.reg_a = 0
    /\ AluFlag(FLAG_ZERO) /\ AluFlag(FLAG_CARRY) /\ AluFlag(FLAG_HALF_CARRY)


(***************************************************************************)
(* Cycle counts, checked under SpecCpu                                     *)
(***************************************************************************)
\* opcodes of the 8-bit ALU instructions on (HL) and on an immediate byte
AluMemOps == {\h86, \h8E, \h96, \h9E, \hA6, \hAE, \hB6, \hBE,
              \hC6, \hCE, \hD6, \hDE, \hE6, \hEE, \hF6, \hFE}

\* the condition of a conditional jump, call or return, from bits 3 and 4
CondOf(opc) ==
    CASE (opc \div 8) % 4 = 0 -> "NZ"
      [] (opc \div 8) % 4 = 1 -> "Z"
      [] (opc \div 8) % 4 = 2 -> "NC"
      [] OTHER -> "C"

Taken(opc) == Should(last_op.pre, CondOf(opc))

\* C24: when no interrupt is dispatched, exec returns 2 m for ADD, ADC, SUB,
\* SBC, AND, XOR, OR and CP on (HL) or on an immediate byte, 4 m for
\* LD A,(nn) and LD (nn),A, 3 m or 4 m for JP cc not taken or taken, 3 m or
\* 6 m for CALL cc, 2 m or 5 m for RET cc and 2 m or 3 m for JR cc.
C24_CycleTable ==
    (last_op.op = "exec" /\ last_op.ok /\ last_op.irq = 0) =>
        LET opc == last_op.val
            m == last_op.ret
        IN  /\ opc \in AluMemOps => m = 2
            /\ opc \in {\hFA, \hEA} => m = 4
            /\ opc \in {\hC2, \hCA, \hD2, \hDA} => m = (IF Taken(opc) THEN 4 ELSE 3)
            /\ opc \in {\hC4, \hCC, \hD4, \hDC} => m = (IF Taken(opc) THEN 6 ELSE 3)
            /\ opc \in {\hC0, \hC8, \hD0, \hD8} => m = (IF Taken(opc) THEN 5 ELSE 2)
            /\ opc \in {\h20, \h28, \h30, \h38} => m = (IF Taken(opc) THEN 3 ELSE 2)

\* AND n8 has run without an interrupt and exec returned 1 m
C24_AndImmediateOneCycle ==
    /\ Ran(\hE6) /\ last_op.ok /\ last_op.irq = 0
    /\ last_op.ret = 1 /\ last_op.t = 4

\* LD A,(nn) has run without an interrupt and exec returned 2 m
LdAbsoluteTwoCycles ==
    /\ Ran(\hFA) /\ last_op.ok /\ last_op.irq = 0
    /\ last_op.ret = 2


(***************************************************************************)
(* renderscan for every choice of two sprites on line 0, of the background *)
(* tile and of the control register                                        *)
(***************************************************************************)
SpriteChoices ==
    {<<16, x, tile, flags>> : x \in {8, 12}, tile \in {0, 1, 2},
                              flags \in {\h00, \h20, \h80, \h90}}

InitSprite ==
    /\ overflow_checks = FALSE
    /\ debug_gb_doctor = FALSE
    /\ cpu = new_cpu(FALSE)
    /\ mmu = new_mmu(MmuCart)
    /\ key_reg = new_key_reg
    /\ panicked = FALSE
    /\ last_op = NoOp
    /\ written = EmptyWritten
    /\ dispatched = <<>>
    /\ nops = 0
    /\ gpu = new_gpu
    /\ engine = NoEngine
    /\ held = {}
    /\ threads = NoThreads
    /\ locks = NoLocks
    /\ lin = NoLin
    /\ \E s0 \in SpriteChoices, s1 \in SpriteChoices, bg_tile \in {0, 1, 3},
          control_flags \in {0, 2, 3} :
         screen = [NoScreen EXCEPT
                      !.control_flags = control_flags, !.bg_tile = bg_tile,
                      !.bgp = \hE4, !.obp0 = \hE4, !.obp1 = \h1B,
                      !.oam = [i \in 0 .. 39 |->
                                  IF i = 0 THEN s0 ELSE IF i = 1 THEN s1 ELSE NoSprite]]

NextSprite == RenderScan

SpecSprite == InitSprite /\ [][NextSprite]_vars

(***************************************************************************)
(* Properties of renderscan, checked under SpecSprite                      *)
(***************************************************************************)
Drawn == screen.at = "drawn" /\ BitAnd(screen.control_flags, FLAG_CONT_SPR_ON) > 0

\* sprite i intersects the line and its pixel px is on the screen
OnLine(i, px) ==
    /\ screen.oam[i][1] - 16 <= screen.line /\ screen.oam[i][1] - 16 + 8 > screen.line
    /\ screen.oam[i][2] - 8 + px >= 0 /\ screen.oam[i][2] - 8 + px < 160

ColumnOf(i, px) == screen.oam[i][2] - 8 + px

\* the palette-key of pixel px of sprite i
KeyOf(i, px) ==
    LET sprite == screen.oam[i]
    IN  tilerow_n_to_color(TileRow(sprite[3])[1], TileRow(sprite[3])[2],
                           IF BitAnd(sprite[4], FLAG_SPR_X_FLIP) = 0 THEN 7 - px ELSE px)

Behind(i) == BitAnd(screen.oam[i][4], FLAG_SPR_IN_BACKGROUND) > 0

ColorOf(i, px) ==
    get_palette(IF BitAnd(screen.oam[i][4], FLAG_SPR_PALETTE) = 0
                THEN screen.obp0 ELSE screen.obp1)[KeyOf(i, px)]

C27_FrameComplete ==
    Stepped =>
        /\ last_op.ok
        /\ engine.sent => engine.rendered = [k \in 1 .. 144 |-> k - 1]
        /\ \A k \in 1 .. Len(engine.rendered) : engine.rendered[k] < 144

\* the failing case of C27: the first step panics with no line rendered;
\* and in the mode machine the GPU as created leaves the HBlank of line 0
\* for the OAM scan of line 1 without line 0 having been rendered, line 142
\* is rendered at the end of its VRAM scan, and the HBlank of line 142 ends
\* in VBlank with the frame sent, before any scan of line 143
C27_FrameMissesLines ==
    /\ StepPanicked
    /\ engine.rendered = <<>>
    /\ LET First(r) == ~r.sent /\ r.g.mode = "ScOam" /\ r.g.line = 1
           Scanned(r) == ~r.sent /\ r.g.mode = "HBlank" /\ r.g.line = 142
           Sent(r) == r.sent /\ r.g.mode = "VBlank" /\ r.g.line = 143
       IN  /\ First(StepModes(new_gpu, mmu, 204))
           /\ Scanned(StepModes([mode |-> "ScVram", mode_clock |-> 168, line |-> 142], mmu, 4))
           /\ Sent(StepModes([mode |-> "HBlank", mode_clock |-> 200, line |-> 142], mmu, 4))


(***************************************************************************)
(* Progress of the calls on the shared KeyReg, checked under SpecKeysFair  *)
(***************************************************************************)
Busy(t) == threads[t].pc # "idle"

\* the next step of thread t is not the wait for a lock that is held
CanStep(t) ==
    CASE threads[t].pc = "column_write" -> WriteFree(locks.column)
      [] threads[t].pc = "rows_write" -> WriteFree(locks.rows)
      [] threads[t].pc = "column_read" -> ReadFree(locks.column)
      [] threads[t].pc = "rows_read" -> ReadFree(locks.rows)
      [] OTHER -> Busy(t)

HoldsRows(t) == locks.rows.writer = t \/ t \in locks.rows.readers

\* C28: the KeyReg cannot deadlock: whenever a call is under way some thread
\* can take a step; no thread waits for the column lock while it holds the
\* rows lock; and every call that has begun returns.
C28_NoDeadlock ==
    /\ []((\E t \in Threads : Busy(t)) => \E t \in Threads : CanStep(t))
    /\ [](\A t \in Threads :
              threads[t].pc \in {"column_write", "column_read"} => ~HoldsRows(t))
    /\ \A t \in Threads : Busy(t) ~> ~Busy(t)

\* a key_down or key_up waits for the rows lock while the other thread, in
\* get_keys, holds the read guards of both locks
C28_WriterWaits ==
    \E t \in Threads, u \in Threads :
        /\ t # u
        /\ threads[t].pc = "rows_write" /\ ~CanStep(t)
        /\ threads[u].op = "get_keys"
        /\ u \in locks.column.readers /\ u \in locks.rows.readers


\* C29: every call of exec that returns, whatever the opcode, returns at
\* least 1 m and 4 T, so that the fclk of the loop of start_game_boy, from
\* which the T-cycles returned are subtracted, is less after the iteration
\* than before it.
C29_ExecTakesTime ==
    (last_op.op = "exec" /\ last_op.ok) =>
        /\ last_op.ret >= 1 /\ last_op.t >= 4
        /\ engine.delta_t = last_op.t
        /\ engine.fclk - engine.delta_t < engine.fclk

\* STOP has run: exec returned 0 m and 0 T, and the loop goes on to
\* gpu.step and the subtraction with a delta_t of 0
C29_StopTakesNoTime ==
    /\ Ran(\h10) /\ last_op.ok
    /\ last_op.ret = 0 /\ last_op.t = 0
    /\ engine.at = "step" /\ engine.delta_t = 0
    /\ engine.fclk - engine.delta_t = engine.fclk

\* an illegal opcode has run and exec returned 0 m and 0 T
IllegalTakesNoTime ==
    /\ last_op.op = "exec" /\ last_op.ok
    /\ last_op.val \in {\hD3, \hDB, \hDD, \hE3, \hE4, \hEB, \hEC, \hED, \hF4, \hFC, \hFD}
    /\ last_op.ret = 0 /\ last_op.t = 0


\* values of IE and of IF with no bit, with the five interrupt bits, and with
\* bits among 5..7 only
IrqVals == {\h00, \h1F, \h20, \hE0}

====
